---- MODULE Spec2Model ----
(***************************************************************************)
(* Policy-gated execution pipeline of the agentic wallet.                  *)
(*                                                                         *)
(* The model follows the TypeScript sources: Executor.execute is split at  *)
(* its await points (one action per resumption), PolicyEngine.evaluateAll  *)
(* is the loop over the registry with one policy evaluated per resumption, *)
(* and the three concrete policies are operators over their private        *)
(* per-agent state.  Time is the value Date.now() would return; it moves   *)
(* in steps of TickMs.                                                     *)
(*                                                                         *)
(* Spec         one execute call at a time, the whole pipeline             *)
(* SpecConc     two execute calls of one agent interleaved, up to the      *)
(*              return of evaluateAll                                      *)
(* SpecSpending SpendingLimitPolicy.evaluate called directly               *)
(* SpecRate     RateLimitPolicy.evaluate called directly                   *)
(* SpecDirect   ProgramWhitelistPolicy.evaluate and AdapterFactory called  *)
(*              directly                                                   *)
(***************************************************************************)
EXTENDS Integers, Sequences, FiniteSets, TLC

VARIABLES
    now,          \* Date.now()
    policies,     \* PolicyEngine.policies : sequence of registered policy ids
    records,      \* SpendingLimitPolicy.records : agentId -> SpendRecord
    timestamps,   \* RateLimitPolicy.timestamps  : agentId -> number[]
    allowedPrograms, \* ProgramWhitelistPolicy.allowedPrograms (constructor)
    adapters,     \* AdapterFactory.adapters : chain -> the adapter bound to it
    keys,         \* IKeyStore contents : set of wallet ids holding a key
    calls,        \* one record per Executor.execute invocation slot
    history,      \* what the two stateful policies allowed, per agent and instant
    returned,     \* outcome of the latest direct call on a component
    wallets,      \* WalletManager.wallets : set of wallet ids held in memory
    payer,        \* @orca-so/whirlpools: the process-wide payer, the wallet
                  \* whose key setPayerFromBytes installed last
    tokenManager, \* the TokenManagerAgent: state, tokenMint, and what it emitted
    runner        \* ScenarioRunner.run: its position in the loops over rounds
                  \* and agents

vars == <<now, policies, records, timestamps, allowedPrograms, adapters, keys,
          calls, history, returned, wallets, payer, tokenManager, runner>>

----------------------------------------------------------------------------
(* Bounds of the model *)

MaxTicks == 2          \* the clock stops after MaxTicks ticks
MaxAmount == 2         \* intents carry amounts 0..MaxAmount
MaxLamports == 2       \* SpendingLimitPolicy.maxLamports (configuration)
MaxTxPerMinute == 2    \* RateLimitPolicy.maxTxPerMinute (configuration)
IsolationTicks == 1    \* ticks of the clock in the two-agent specification
MaxRounds == 3         \* ScenarioRunner.run: rounds is 1..MaxRounds
MaxDecisions == 4      \* decisions asked of a TokenManagerAgent called directly

(* Program constants *)

RateWindowMs == 60000      \* RateLimitPolicy.evaluate: const windowMs = 60_000
WindowMs == 60000          \* SpendingLimitPolicy constructor default windowMs
MaxDecimals == 9           \* CreateMintIntentSchema: decimals max(9)
MintTokens == 1000     \* TokenManagerAgent: tokens minted (1000 tokens)
TransferTokens == 100  \* TokenManagerAgent: tokens transferred (100 tokens)

\* One tick of the clock is one rate window: an entry made one tick ago lies
\* exactly on the cutoff, one made in the same tick lies inside the window
TickMs == RateWindowMs
\* The direct calls on the policies are made half a window apart, so that
\* entries lie inside, on and outside the cutoff
HalfTickMs == TickMs \div 2
\* Every value Date.now() takes
Times == {k * HalfTickMs : k \in 0..(2 * MaxTicks)}

Agents == {"a1", "a2"}
Wallets == {"w1", "w2"}
\* BaseAgent: every agent is constructed with the wallet id it puts in its intents
WalletOf(a) == IF a = "a1" THEN "w1" ELSE "w2"

Chains == {"solana", "eth"}
\* IProtocolAdapter instances: two SolanaProtocolAdapter objects and an adapter
\* of another chain
SolanaAdapter == [id |-> "solana-1", chain |-> "solana"]
Adapters == {SolanaAdapter, [id |-> "solana-2", chain |-> "solana"],
             [id |-> "eth-1", chain |-> "eth"]}
NoAdapter == [id |-> "", chain |-> ""]
\* No setPayerFromBytes call has been made
NoPayer == ""
\* The adapter the composition root registers
WiredAdapters == {SolanaAdapter}
Calls == {"c1", "c2"}
TxHashes == {"h1", "h2"}

SystemProgram == "11111111111111111111111111111111"
TokenProgram == "TokenkegQfeZyiNwAJbNbGKPFXCWuBvf9Ss623VQ5DA"
JupiterProgram == "JUP6LkbZbjS1jKKwapdHNy74zcZ3tLUZoi5QNyVTaV4"
Programs == {SystemProgram, TokenProgram, JupiterProgram}
\* ConfigLoader: ALLOWED_PROGRAMS default
AllowedPrograms == {SystemProgram, TokenProgram}

PolicyIds == {"spending-limit", "rate-limit", "program-whitelist"}
EngineId == "policy-engine"

----------------------------------------------------------------------------
(* Intents (core/intents/Intent.ts) *)

TransferIntents ==
    [type : {"transfer"}, chain : Chains, fromWalletId : Wallets,
     amount : 0..MaxAmount, tokenMint : BOOLEAN]
SwapIntents ==
    [type : {"swap"}, chain : Chains, fromWalletId : Wallets,
     amountIn : 0..MaxAmount]
CreateMintIntents ==
    [type : {"create_mint"}, chain : Chains, fromWalletId : Wallets,
     decimals : {MaxDecimals, MaxDecimals + 1}]
MintTokenIntents ==
    [type : {"mint_token"}, chain : Chains, fromWalletId : Wallets,
     amount : 0..MaxAmount]
UnknownIntents ==
    [type : {"unknown"}, chain : Chains, fromWalletId : Wallets]

\* Raw input handed to execute: every variant, well-formed or not
RawIntents ==
    TransferIntents \cup SwapIntents \cup CreateMintIntents
        \cup MintTokenIntents \cup UnknownIntents

NoIntent == [type |-> "none"]

\* BaseIntentSchema.id
IntentIds == {"i1", "i2"}

isTransferIntent(intent) == intent.type = "transfer"
isSwapIntent(intent) == intent.type = "swap"

\* Mutant of IntentSchema: the parse also depends on the clock, an intent is
\* accepted only at the instant it was created
IntentSchemaFresh(intent) ==
    /\ now = 0
    /\ intent.chain # ""
    /\ intent.fromWalletId # ""
    /\ CASE intent.type = "transfer" -> intent.amount > 0
         [] intent.type = "swap" -> intent.amountIn > 0
         [] intent.type = "create_mint" ->
                intent.decimals >= 0 /\ intent.decimals <= MaxDecimals
         [] intent.type = "mint_token" -> intent.amount > 0
         [] OTHER -> FALSE

\* IntentSchema.safeParse(intent).success
IntentSchema(intent) ==
    /\ intent.chain # ""
    /\ intent.fromWalletId # ""
    /\ CASE intent.type = "transfer" -> intent.amount > 0
         [] intent.type = "swap" -> intent.amountIn > 0
         [] intent.type = "create_mint" ->
                intent.decimals >= 0 /\ intent.decimals <= MaxDecimals
         [] intent.type = "mint_token" -> intent.amount > 0
         [] OTHER -> FALSE

----------------------------------------------------------------------------
(* SolanaTransactionBuilder.build: the programIds of the ChainTransaction   *)
(* built for an intent                                                      *)

\* buildSwap: the Orca Whirlpool program
WhirlpoolProgram == "whirLbMiicVdio4qvUfM5KAg6Ct8VwpYzGff3uctyCc"

BuiltProgramIds(intent) ==
    CASE intent.type = "transfer" ->
            IF intent.tokenMint THEN <<TokenProgram>> ELSE <<SystemProgram>>
      [] intent.type = "swap" -> <<WhirlpoolProgram>>
      [] intent.type = "create_mint" -> <<TokenProgram>>
      [] intent.type = "mint_token" -> <<TokenProgram>>

----------------------------------------------------------------------------
(* Policy decisions (core/types/PolicyDecision.ts) *)

Reason(text, program, a, b) ==
    [text |-> text, program |-> program, a |-> a, b |-> b]

PolicyAllow(pid) == [allowed |-> TRUE, policyId |-> pid]
PolicyDeny(pid, reason) ==
    [allowed |-> FALSE, policyId |-> pid, reason |-> reason]

NoDecision == [allowed |-> FALSE, policyId |-> "none",
               reason |-> Reason("none", "", 0, 0)]

----------------------------------------------------------------------------
(* SpendingLimitPolicy *)

NoRecord == [totalSpent |-> -1, windowStart |-> -1]

\* Mutant of extractAmount: the amount of a mint_token intent is taken too
extractAmountOfAny(intent) ==
    IF intent.type \in {"transfer", "mint_token"} THEN <<TRUE, intent.amount>>
    ELSE IF intent.type = "swap" THEN <<TRUE, intent.amountIn>>
    ELSE <<FALSE, 0>>

\* extractAmount: a pair <<hasAmount, amount>>, hasAmount FALSE for null
extractAmount(intent) ==
    IF isTransferIntent(intent) THEN <<TRUE, intent.amount>>
    ELSE IF isSwapIntent(intent) THEN <<TRUE, intent.amountIn>>
    ELSE <<FALSE, 0>>

\* Mutant of getOrCreateRecord: one record is shared by all agents, the
\* record of the first agent that has one
getOrCreateRecordShared(recs, agentId, t) ==
    IF \A a \in DOMAIN recs : recs[a] = NoRecord
    THEN [totalSpent |-> 0, windowStart |-> t]
    ELSE IF recs["a1"] # NoRecord THEN recs["a1"] ELSE recs["a2"]

getOrCreateRecord(recs, agentId, t) ==
    IF recs[agentId] = NoRecord
    THEN [totalSpent |-> 0, windowStart |-> t]
    ELSE recs[agentId]

\* Mutant of WindowExpired: the window is never reset
WindowExpiredNever(t, record) == FALSE

\* The window test of evaluate: "Reset window if expired"
WindowExpired(t, record) == t - record.windowStart > WindowMs

\* Mutant of ResetWindow: the window is moved, what was spent is kept
ResetKeepsSpent(record, t) == [record EXCEPT !.windowStart = t]

\* evaluate, "Reset window if expired": totalSpent = 0n, windowStart = now
ResetWindow(record, t) == [totalSpent |-> 0, windowStart |-> t]

\* Mutant of OverLimit: the limit test is off by one
OverLimitMut(projectedSpend) == projectedSpend > MaxLamports + 1

\* The limit test of evaluate
OverLimit(projectedSpend) == projectedSpend > MaxLamports

\* Mutant of Commit: the projected spend is not written back
CommitLost(record, projectedSpend) == record

\* evaluate, "Commit the spend": record.totalSpent = projectedSpend
Commit(record, projectedSpend) ==
    [record EXCEPT !.totalSpent = projectedSpend]

\* evaluate(intent, context) at time t: the decision and the records after it
SpendingLimitEvaluate(recs, intent, agentId, t) ==
    LET ex == extractAmount(intent) IN
    IF ~ex[1]
    THEN [decision |-> PolicyAllow("spending-limit"), records |-> recs]
    ELSE
      LET amount == ex[2]
          created == getOrCreateRecord(recs, agentId, t)
          record == IF WindowExpired(t, created)
                    THEN ResetWindow(created, t)
                    ELSE created
          projectedSpend == record.totalSpent + amount
      IN IF OverLimit(projectedSpend)
         THEN [decision |->
                  PolicyDeny("spending-limit",
                      Reason("Spending limit exceeded", "",
                             projectedSpend, MaxLamports)),
               records |-> [recs EXCEPT ![agentId] = record]]
         ELSE [decision |-> PolicyAllow("spending-limit"),
               records |-> [recs EXCEPT ![agentId] =
                               Commit(record, projectedSpend)]]

----------------------------------------------------------------------------
(* RateLimitPolicy *)

\* Mutant of Recent: old entries are never dropped
RecentKeepsAll(ts, t) == ts

\* agentTimestamps.filter((ts) => ts > cutoff)
Recent(ts, t) == SelectSeq(ts, LAMBDA x : x > t - RateWindowMs)

\* Mutant of RateLimited: the limit test is off by one
RateLimitedMut(recentTimestamps) == Len(recentTimestamps) > MaxTxPerMinute

\* evaluate, "if (recentTimestamps.length >= this.maxTxPerMinute)"
RateLimited(recentTimestamps) == Len(recentTimestamps) >= MaxTxPerMinute

RateLimitEvaluate(tss, intent, agentId, t) ==
    LET recentTimestamps == Recent(tss[agentId], t) IN
    IF RateLimited(recentTimestamps)
    THEN [decision |->
             PolicyDeny("rate-limit",
                 Reason("Rate limit exceeded", "",
                        Len(recentTimestamps), MaxTxPerMinute)),
          timestamps |-> [tss EXCEPT ![agentId] = recentTimestamps]]
    ELSE [decision |-> PolicyAllow("rate-limit"),
          timestamps |-> [tss EXCEPT ![agentId] = Append(recentTimestamps, t)]]

----------------------------------------------------------------------------
(* ProgramWhitelistPolicy *)

\* Mutant of extractTargetPrograms: tokenMint is not looked at
extractTargetProgramsMut(intent) ==
    CASE intent.type = "transfer" -> <<SystemProgram>>
      [] intent.type = "swap" -> <<JupiterProgram>>
      [] OTHER -> <<>>

extractTargetPrograms(intent) ==
    CASE intent.type = "transfer" ->
            IF intent.tokenMint THEN <<TokenProgram>> ELSE <<SystemProgram>>
      [] intent.type = "swap" -> <<JupiterProgram>>
      [] OTHER -> <<>>

ProgramWhitelistEvaluate(intent) ==
    LET targetPrograms == extractTargetPrograms(intent)
        denied == {i \in 1..Len(targetPrograms) :
                      targetPrograms[i] \notin allowedPrograms}
    IN IF denied = {}
       THEN PolicyAllow("program-whitelist")
       ELSE LET first == CHOOSE i \in denied : \A j \in denied : i <= j
            IN PolicyDeny("program-whitelist",
                   Reason("is not whitelisted", targetPrograms[first], 0, 0))

----------------------------------------------------------------------------
(* policy.evaluate(intent, context) for the policy registered under pid:   *)
(* the decision and the two policies' private state after the call         *)

\* Mutant of PolicyEvaluate: a denial by the rate limit gives back what the
\* spending limit committed for the intent
PolicyEvaluateUndo(pid, recs, tss, intent, agentId, t) ==
    CASE pid = "spending-limit" ->
            LET r == SpendingLimitEvaluate(recs, intent, agentId, t)
            IN [decision |-> r.decision, records |-> r.records,
                timestamps |-> tss]
      [] pid = "rate-limit" ->
            LET r == RateLimitEvaluate(tss, intent, agentId, t)
            IN [decision |-> r.decision,
                records |-> IF ~r.decision.allowed /\ recs[agentId] # NoRecord
                            THEN [recs EXCEPT ![agentId].totalSpent =
                                      @ - extractAmount(intent)[2]]
                            ELSE recs,
                timestamps |-> r.timestamps]
      [] pid = "program-whitelist" ->
            [decision |-> ProgramWhitelistEvaluate(intent), records |-> recs,
             timestamps |-> tss]

PolicyEvaluate(pid, recs, tss, intent, agentId, t) ==
    CASE pid = "spending-limit" ->
            LET r == SpendingLimitEvaluate(recs, intent, agentId, t)
            IN [decision |-> r.decision, records |-> r.records,
                timestamps |-> tss]
      [] pid = "rate-limit" ->
            LET r == RateLimitEvaluate(tss, intent, agentId, t)
            IN [decision |-> r.decision, records |-> recs,
                timestamps |-> r.timestamps]
      [] pid = "program-whitelist" ->
            [decision |-> ProgramWhitelistEvaluate(intent), records |-> recs,
             timestamps |-> tss]

----------------------------------------------------------------------------
(* History of the two stateful policies: the amount SpendingLimitPolicy    *)
(* allowed and the number of evaluations RateLimitPolicy allowed, per      *)
(* agent and instant.  It is read from the intent and the decision, never  *)
(* from the policies' own state, and is kept only where it is switched on. *)

NoHistory ==
    [on |-> FALSE,
     spent |-> [a \in Agents |-> [t \in Times |-> 0]],
     allowed |-> [a \in Agents |-> [t \in Times |-> 0]],
     \* who invoked IKeyStore.retrieve, and for which wallet
     retrieved |-> {},
     \* the wallets Signer.sign succeeded for
     signed |-> {},
     \* how often sendTransaction was invoked for each intent id
     sent |-> [id \in IntentIds |-> 0]]

EmptyHistory == [NoHistory EXCEPT !.on = TRUE]

\* The amount an intent moves (transfer: amount, swap: amountIn)
AmountOf(intent) ==
    CASE intent.type = "transfer" -> intent.amount
      [] intent.type = "swap" -> intent.amountIn
      [] OTHER -> 0

Observe(h, pid, agentId, intent, decision, t) ==
    IF ~h.on \/ ~decision.allowed THEN h
    ELSE CASE pid = "spending-limit" ->
                 [h EXCEPT !.spent[agentId][t] = @ + AmountOf(intent)]
           [] pid = "rate-limit" ->
                 [h EXCEPT !.allowed[agentId][t] = @ + 1]
           [] OTHER -> h

\* keyStore.retrieve(walletId) was invoked by caller
ObserveRetrieve(h, caller, walletId) ==
    IF ~h.on THEN h
    ELSE [h EXCEPT !.retrieved =
             @ \cup {[caller |-> caller, walletId |-> walletId]}]

\* Signer.sign returned a signature for walletId
ObserveSigned(h, walletId) ==
    IF ~h.on THEN h ELSE [h EXCEPT !.signed = @ \cup {walletId}]

\* sendTransaction was invoked for the intent
ObserveSent(h, intent) ==
    IF ~h.on \/ "id" \notin DOMAIN intent THEN h
    ELSE [h EXCEPT !.sent[intent.id] = @ + 1]

NoReturn == [op |-> "none"]

----------------------------------------------------------------------------
(* IKeyStore and Signer *)

\* keyStore.retrieve(walletId): TRUE when a key is returned, FALSE when it
\* throws "No key found"
KeyStoreRetrieve(ks, walletId) == walletId \in ks

\* Mutant of SignerKey: a key that signed before is still at hand
SignerKeyCached(ks, walletId) ==
    KeyStoreRetrieve(ks, walletId) \/ walletId \in history.signed

\* Signer.sign / Signer.getSecretKey: the key is asked from the key store on
\* every call
SignerKey(ks, walletId) == KeyStoreRetrieve(ks, walletId)

----------------------------------------------------------------------------
(* AdapterFactory *)

\* Mutant of AlreadyRegistered: a bound chain is bound again
AlreadyRegisteredMut(map, adapter) == FALSE

\* register, the test "this.adapters.has(adapter.chain)"
AlreadyRegistered(map, adapter) == map[adapter.chain] # NoAdapter

\* register(adapter): the map after the call (unchanged when it throws)
AdapterRegister(map, adapter) ==
    IF AlreadyRegistered(map, adapter) THEN map
    ELSE [map EXCEPT ![adapter.chain] = adapter]

\* Mutant of AdapterResolve: the chain asked for is not looked at
AdapterResolveMut(map, chain) == map["solana"]

\* resolve(chain): this.adapters.get(chain); NoAdapter stands for the throw
AdapterResolve(map, chain) == map[chain]

\* IntentRouter.resolve(intent)
RouterResolve(map, intent) == AdapterResolve(map, intent.chain)

----------------------------------------------------------------------------
(* PolicyEngine *)

\* Mutant of ShortCircuit: a denial does not end the loop
ShortCircuitNever(decision) == FALSE

\* Mutant of ShortCircuit: the test is inverted, the loop ends on an Allow
ShortCircuitOnAllow(decision) == decision.allowed

\* evaluateAll: "if (!decision.allowed) return decision" (short-circuit)
ShortCircuit(decision) == ~decision.allowed

\* evaluateAll: the value returned after the loop ("All policies passed")
AllPassed == PolicyAllow(EngineId)

\* Mutant of LoopDone: the loop stops one policy early
LoopDoneMut(registry, i) == i >= Len(registry)

\* evaluateAll: the for-of loop over this.policies is over at index i
LoopDone(registry, i) == i > Len(registry)

\* evaluateAll(intent, context) run from index i without another task in
\* between, at time t: the decision returned and the policies' state after it
RECURSIVE EvaluateAllFrom(_, _, _, _, _, _, _)
EvaluateAllFrom(registry, i, recs, tss, intent, agentId, t) ==
    IF LoopDone(registry, i)
    THEN [decision |-> AllPassed, records |-> recs, timestamps |-> tss]
    ELSE LET r == PolicyEvaluate(registry[i], recs, tss, intent, agentId, t)
         IN IF ShortCircuit(r.decision)
            THEN r
            ELSE EvaluateAllFrom(registry, i + 1, r.records, r.timestamps,
                                 intent, agentId, t)

EvaluateAll(registry, recs, tss, intent, agentId, t) ==
    EvaluateAllFrom(registry, 1, recs, tss, intent, agentId, t)

----------------------------------------------------------------------------
(* Errors (core/errors) and results (core/types/ExecutionResult.ts) *)

Msg(text, detail) == [text |-> text, detail |-> detail]

Error(message) ==
    [cls |-> "Error", code |-> "", stage |-> "", message |-> message]
ExecutionError(stage, message) ==
    [cls |-> "ExecutionError", code |-> "EXECUTION_ERROR", stage |-> stage,
     message |-> Msg("Pipeline failed at", stage)]
SigningError(walletId, message) ==
    [cls |-> "SigningError", code |-> "SIGNING_ERROR", stage |-> "",
     message |-> Msg("Signing failed for wallet", walletId)]
PolicyViolation(policyId, reason) ==
    [cls |-> "PolicyViolation", code |-> "POLICY_VIOLATION",
     policyId |-> policyId, reason |-> reason]
NoCause == [cls |-> "none"]

PipelineStages == {"validation", "policy", "build", "sign", "send", "confirm"}

Failure(errorCode, errorMessage, failedAt, cause) ==
    [status |-> "failure", errorCode |-> errorCode,
     errorMessage |-> errorMessage, failedAt |-> failedAt, cause |-> cause]
Success(txHash, chain) ==
    [status |-> "success", txHash |-> txHash, chain |-> chain]
NoResult == [status |-> "none"]

\* Mutant of CatchStage: the stage carried by the error is not looked at
CatchStageDefault(error) ==
    IF error.cls = "PolicyViolation" THEN "policy" ELSE "send"

\* The stage the catch block of execute derives from the error it caught
CatchStage(error) ==
    IF error.cls = "ExecutionError" THEN error.stage
    ELSE IF error.cls = "PolicyViolation" THEN "policy"
    ELSE "send"

\* The catch block of execute
Catch(error) ==
    Failure(IF error.cls = "ExecutionError" THEN error.code
            ELSE "PIPELINE_ERROR",
            error.message, CatchStage(error), error)

\* execute, "if (!validation.success)"
ValidationFailure ==
    Failure("VALIDATION_ERROR", Msg("Invalid intent", ""), "validation",
            NoCause)

\* Mutant of PolicyFailure: the cause names the engine, not the denying policy
PolicyFailureMut(policyDecision) ==
    Failure("POLICY_VIOLATION", policyDecision.reason, "policy",
            PolicyViolation(EngineId, policyDecision.reason))

\* execute, "if (!policyDecision.allowed)"
PolicyFailure(policyDecision) ==
    Failure("POLICY_VIOLATION", policyDecision.reason, "policy",
            PolicyViolation(policyDecision.policyId, policyDecision.reason))

\* Mutant of Denied: the denial is not looked at
DeniedMut(policyDecision) == FALSE

\* execute, the test "if (!policyDecision.allowed)"
Denied(policyDecision) == ~policyDecision.allowed

\* execute, "if (!confirmed)"
ConfirmationFailure(txHash) ==
    Failure("CONFIRMATION_FAILED", Msg("failed to confirm", txHash),
            "confirm", NoCause)

----------------------------------------------------------------------------
(* Executor.execute, one record per invocation *)

----------------------------------------------------------------------------
(* TokenManagerAgent (agents/strategies/TokenManagerAgent.ts) *)

\* Mint addresses a context can carry in meta.lastMintAddress
Mints == {"m1", "m2"}

\* meta.otherWallets: absent (or no array), an empty array, an array of wallets
NoArray == [isArray |-> FALSE, items |-> <<>>]
OtherWallets ==
    {NoArray, [isArray |-> TRUE, items |-> <<>>],
     [isArray |-> TRUE, items |-> <<"w2">>]}

\* context.meta as the strategy reads it; lastMintAddress "" when absent
Metas == [lastMintAddress : {""} \cup Mints, otherWallets : OtherWallets]

\* The agent after construction; trace is the history of what its decisions
\* returned
NewTokenManager ==
    [walletId |-> "w1", state |-> "INIT", tokenMint |-> "", trace |-> <<>>]

\* Mutant of TokenManagerRecover: the mint address of the context is taken
\* whenever it is given, and the agent starts over from MINT_CREATED
TokenManagerRecoverAlways(a, meta) ==
    IF meta.lastMintAddress # ""
    THEN [a EXCEPT !.tokenMint = meta.lastMintAddress,
                   !.state = "MINT_CREATED"]
    ELSE a

\* strategy, "Recover mint address from context"
TokenManagerRecover(a, meta) ==
    IF meta.lastMintAddress # "" /\ a.tokenMint = ""
    THEN [a EXCEPT !.tokenMint = meta.lastMintAddress,
                   !.state = IF @ = "INIT" THEN "MINT_CREATED" ELSE @]
    ELSE a

\* strategy(context): the agent after the call and the intent returned
\* (NoIntent for null)
TokenManagerStrategy(a0, meta) ==
    LET a == TokenManagerRecover(a0, meta) IN
    CASE a.state = "INIT" ->
            [agent |-> [a EXCEPT !.state = "MINT_CREATED"],
             intent |-> [type |-> "create_mint", chain |-> "solana",
                         fromWalletId |-> a.walletId,
                         decimals |-> MaxDecimals]]
      [] a.state = "MINT_CREATED" ->
            IF a.tokenMint = ""
            THEN [agent |-> a, intent |-> NoIntent]
            ELSE [agent |-> [a EXCEPT !.state = "TOKENS_MINTED"],
                  intent |-> [type |-> "mint_token", chain |-> "solana",
                              fromWalletId |-> a.walletId,
                              mint |-> a.tokenMint, to |-> a.walletId,
                              amount |-> MintTokens]]
      [] a.state = "TOKENS_MINTED" ->
            IF \/ a.tokenMint = ""
               \/ ~meta.otherWallets.isArray
               \/ Len(meta.otherWallets.items) = 0
            THEN [agent |-> a, intent |-> NoIntent]
            ELSE [agent |-> [a EXCEPT !.state = "DONE"],
                  intent |-> [type |-> "transfer", chain |-> "solana",
                              fromWalletId |-> a.walletId,
                              to |-> meta.otherWallets.items[1],
                              amount |-> TransferTokens,
                              tokenMint |-> a.tokenMint # ""]]
      [] OTHER -> [agent |-> a, intent |-> NoIntent]

\* The agent after decide(context) returned intent: the call is noted
Decided(r) == [r.agent EXCEPT !.trace = Append(@, r.intent.type)]

----------------------------------------------------------------------------
(* ScenarioRunner (simulation/ScenarioRunner.ts) *)

\* TokenEcosystemScenario: agents: [tokenManager, peerAgent]
ScenarioAgents == <<"token-manager", "random-transfer">>

\* buildAgentContext: meta: { ownPublicKey: publicKey }
RunnerMeta == [lastMintAddress |-> "", otherWallets |-> NoArray]

\* run has not been called. executing: the agents whose execute is awaited;
\* submitted: the agents that submitted an intent in the current round;
\* together: two agents submitted in one round; overlapped: an agent's decide
\* or execute began while another agent's execute was awaited; allSucceeded:
\* no execute returned a Failure
IdleRunner ==
    [pc |-> "idle", rounds |-> 0, tick |-> 0, idx |-> 0,
     executing |-> {}, submitted |-> {}, together |-> FALSE,
     overlapped |-> FALSE, allSucceeded |-> TRUE]

IdleCall ==
    [pc |-> "idle", intent |-> NoIntent, agentId |-> "", balance |-> 0,
     polIdx |-> 0, last |-> NoDecision, decision |-> NoDecision,
     adapter |-> NoAdapter, txHash |-> "", result |-> NoResult,
     \* history of the invocation: the collaborator operations it invoked, the
     \* policies it evaluated with their decisions, the operation that threw,
     \* and what confirmTransaction resolved with
     ops |-> <<>>, evaluated |-> <<>>, thrown |-> "", confirmed |-> "none"]

Balances == {5}

Init ==
    /\ now = 0
    /\ policies = <<>>
    /\ records = [a \in Agents |-> NoRecord]
    /\ timestamps = [a \in Agents |-> <<>>]
    /\ allowedPrograms = AllowedPrograms
    /\ adapters = [chain \in Chains |-> NoAdapter]
    /\ keys = {}
    /\ calls = [c \in Calls |-> IdleCall]
    /\ history = NoHistory
    /\ returned = NoReturn
    /\ wallets = {}
    /\ payer = NoPayer
    /\ tokenManager = NewTokenManager
    /\ runner = IdleRunner

\* The call finishes with result r
Finish(call, r) == [call EXCEPT !.pc = "done", !.result = r]

\* Mutant of Caught: the error is rethrown to the caller of execute
CaughtRethrows(call, op, error) ==
    [call EXCEPT !.pc = "rejected", !.thrown = op]

\* Mutant of Caught: the error is noted and the pipeline goes on
CaughtMut(call, op, error) == [call EXCEPT !.thrown = op]

\* Mutant of Caught: a failed balance lookup is taken as no balance and the
\* call goes on
CaughtBalanceIgnored(call, op, error) ==
    IF op = "getBalance" THEN [call EXCEPT !.thrown = op]
    ELSE [Finish(call, Catch(error)) EXCEPT !.thrown = op]

\* The call finishes in the catch block, the error thrown by collaborator op
Caught(call, op, error) ==
    [Finish(call, Catch(error)) EXCEPT !.thrown = op]

\* Mutant of Invoke: every collaborator operation is invoked twice
InvokeTwice(call, op) == [call EXCEPT !.ops = Append(Append(@, op), op)]

\* Mutant of KeptOnFailure: the amount the spending limit reserved for the
\* call is given back
RolledBack(recs, call) ==
    IF /\ recs[call.agentId] # NoRecord
       /\ \E i \in 1..Len(call.evaluated) :
             /\ call.evaluated[i].policyId = "spending-limit"
             /\ call.evaluated[i].decision.allowed
    THEN [recs EXCEPT ![call.agentId].totalSpent = @ - AmountOf(call.intent)]
    ELSE recs

\* The spend records after the call failed behind the policy stage: the
\* catch block and the confirmation failure return without touching them
KeptOnFailure(recs, call) == recs

\* The call invokes collaborator operation op
Invoke(call, op) == [call EXCEPT !.ops = Append(@, op)]

(* Date.now() advances *)
Tick ==
    /\ now < MaxTicks * TickMs
    /\ now' = now + TickMs
    /\ UNCHANGED <<policies, records, timestamps, history, adapters, keys, calls,
                 allowedPrograms, returned, wallets, payer, tokenManager, runner>>

\* The composition root wires the engine, the adapters and the wallets while
\* no execute is in flight
Quiescent == \A c \in Calls : calls[c].pc = "idle"

(* PolicyEngine.register(policy); every policy instance is registered once *)
Register(pid) ==
    /\ Quiescent
    /\ \A i \in 1..Len(policies) : policies[i] # pid
    /\ policies' = Append(policies, pid)
    /\ UNCHANGED <<now, records, timestamps, history, adapters, keys, calls,
                 allowedPrograms, returned, wallets, payer, tokenManager, runner>>

(* AdapterFactory.register(adapter): throws when the chain is bound *)
RegisterAdapter(adapter) ==
    /\ Quiescent
    /\ adapters' = AdapterRegister(adapters, adapter)
    /\ UNCHANGED <<now, policies, records, timestamps, history, keys, calls,
                 allowedPrograms, returned, wallets, payer, tokenManager, runner>>

(* IKeyStore.store / IKeyStore.delete *)
KeyStoreStore(w) ==
    /\ Quiescent
    /\ w \notin keys
    /\ keys' = keys \cup {w}
    /\ UNCHANGED <<now, policies, records, timestamps, history, adapters, calls,
                 allowedPrograms, returned, wallets, payer, tokenManager, runner>>

KeyStoreDelete(w) ==
    /\ Quiescent
    /\ w \in keys
    /\ keys' = keys \ {w}
    /\ UNCHANGED <<now, policies, records, timestamps, history, adapters, calls,
                 allowedPrograms, returned, wallets, payer, tokenManager, runner>>

(* execute(intent, agentId) up to its first await: stage 1, then the       *)
(* balance lookup is started                                               *)
\* Mutant of ExecuteStart: stage 1 is skipped
ExecuteStartMut(call) ==
    [Invoke(call, "getBalance") EXCEPT !.pc = "getBalance"]

ExecuteStart(call) ==
    IF ~IntentSchema(call.intent)
    THEN Finish(call, ValidationFailure)
    ELSE [Invoke(call, "getBalance") EXCEPT !.pc = "getBalance"]

Execute(c, intent, agentId) ==
    /\ calls[c].pc = "idle"
    /\ calls' = [calls EXCEPT ![c] =
          ExecuteStart([IdleCall EXCEPT !.intent = intent,
                                        !.agentId = agentId])]
    /\ UNCHANGED <<now, policies, records, timestamps, history, adapters, keys,
                 allowedPrograms, returned, wallets, payer, tokenManager, runner>>

(* evaluateAll's loop entered at index i: either the loop is over and      *)
(* evaluateAll returns AllPassed, or policies[i].evaluate runs (it has no  *)
(* await inside, so it runs to its return) and the loop awaits it          *)
LoopFrom(c, call, i) ==
    IF LoopDone(policies, i)
    THEN /\ calls' = [calls EXCEPT ![c] =
                [call EXCEPT !.pc = "evaluateAll", !.decision = AllPassed]]
         /\ UNCHANGED <<records, timestamps, history>>
    ELSE LET r == PolicyEvaluate(policies[i], records, timestamps,
                                 call.intent, call.agentId, now)
         IN /\ records' = r.records
            /\ timestamps' = r.timestamps
            /\ history' = Observe(history, policies[i], call.agentId,
                                  call.intent, r.decision, now)
            /\ calls' = [calls EXCEPT ![c] =
                   [call EXCEPT !.pc = "policy", !.polIdx = i,
                                !.last = r.decision,
                                !.evaluated = Append(@,
                                    [policyId |-> policies[i],
                                     decision |-> r.decision])]]

(* getBalance resolves: the context is built and evaluateAll is called *)
BalanceReturns(c) ==
    /\ calls[c].pc = "getBalance"
    /\ \E b \in Balances :
          LoopFrom(c, [Invoke(calls[c], "evaluateAll") EXCEPT !.balance = b], 1)
    /\ UNCHANGED <<now, policies, adapters, keys,
                 allowedPrograms, returned, wallets, payer, tokenManager, runner>>

(* getBalance rejects *)
BalanceThrows(c) ==
    /\ calls[c].pc = "getBalance"
    /\ calls' = [calls EXCEPT ![c] =
          Caught(calls[c], "getBalance", Error(Msg("balance lookup", "")))]
    /\ UNCHANGED <<now, policies, records, timestamps, history, adapters, keys,
                 allowedPrograms, returned, wallets, payer, tokenManager, runner>>

(* evaluateAll resumes after "await policy.evaluate" *)
PolicyResumes(c) ==
    /\ calls[c].pc = "policy"
    /\ IF ShortCircuit(calls[c].last)
       THEN /\ calls' = [calls EXCEPT ![c] =
                  [calls[c] EXCEPT !.pc = "evaluateAll",
                                   !.decision = calls[c].last]]
            /\ UNCHANGED <<records, timestamps, history>>
       ELSE LoopFrom(c, calls[c], calls[c].polIdx + 1)
    /\ UNCHANGED <<now, policies, adapters, keys,
                 allowedPrograms, returned, wallets, payer, tokenManager, runner>>

(* execute resumes after "await evaluateAll": a denial ends the call,      *)
(* otherwise the router resolves the adapter and buildTransaction starts   *)
EvaluateAllReturns(c) ==
    /\ calls[c].pc = "evaluateAll"
    /\ LET call == calls[c] IN
       calls' = [calls EXCEPT ![c] =
          IF Denied(call.decision)
          THEN Finish(call, PolicyFailure(call.decision))
          ELSE LET adapter == RouterResolve(adapters, call.intent) IN
               IF adapter = NoAdapter
               THEN Caught(Invoke(call, "resolve"), "resolve",
                           Error(Msg("No adapter registered for chain",
                                     call.intent.chain)))
               ELSE [Invoke(Invoke(call, "resolve"), "buildTransaction")
                        EXCEPT !.pc = "build", !.adapter = adapter]]
    /\ UNCHANGED <<now, policies, records, timestamps, history, adapters, keys,
                 allowedPrograms, returned, wallets, payer, tokenManager, runner>>

\* buildSwap installs the key of the intent's wallet as payer; the other
\* builders leave the payer alone
PayerAfterBuild(p, intent) ==
    IF isSwapIntent(intent) THEN intent.fromWalletId ELSE p

(* buildTransaction resolves: signer.sign is called; a build that rejects  *)
(* does so before or after buildSwap installed the payer                   *)
BuildReturns(c) ==
    /\ calls[c].pc = "build"
    /\ calls' = [calls EXCEPT ![c] =
          [Invoke(calls[c], "sign") EXCEPT !.pc = "sign"]]
    /\ payer' = PayerAfterBuild(payer, calls[c].intent)
    /\ UNCHANGED <<now, policies, records, timestamps, history, adapters, keys,
                 allowedPrograms, returned, wallets,
                 tokenManager, runner>>

(* buildTransaction rejects: SolanaProtocolAdapter wraps every error *)
BuildThrows(c) ==
    /\ calls[c].pc = "build"
    /\ calls' = [calls EXCEPT ![c] =
          Caught(calls[c], "buildTransaction",
                 ExecutionError("build", Msg("build", "")))]
    /\ records' = KeptOnFailure(records, calls[c])
    /\ payer' \in {payer, PayerAfterBuild(payer, calls[c].intent)}
    /\ UNCHANGED <<now, policies, timestamps, history, adapters, keys,
                 allowedPrograms, returned, wallets,
                 tokenManager, runner>>

(* Signer.sign resolves (the key was retrieved): sendTransaction is called *)
SignReturns(c) ==
    /\ calls[c].pc = "sign"
    /\ SignerKey(keys, calls[c].intent.fromWalletId)
    /\ calls' = [calls EXCEPT ![c] =
          [Invoke(calls[c], "sendTransaction") EXCEPT !.pc = "send"]]
    /\ history' = ObserveSent(
          ObserveSigned(
             ObserveRetrieve(history, "Signer.sign",
                             calls[c].intent.fromWalletId),
             calls[c].intent.fromWalletId),
          calls[c].intent)
    /\ UNCHANGED <<now, policies, records, timestamps, adapters, keys,
                 allowedPrograms, returned, wallets, payer, tokenManager, runner>>

(* Signer.sign rejects with a SigningError: keyStore.retrieve failed       *)
(* (no key) or the signature operation failed                              *)
SignThrows(c) ==
    /\ calls[c].pc = "sign"
    /\ calls' = [calls EXCEPT ![c] =
          Caught(calls[c], "sign",
                 SigningError(calls[c].intent.fromWalletId,
                              Msg("sign", "")))]
    /\ history' = ObserveRetrieve(history, "Signer.sign",
                                  calls[c].intent.fromWalletId)
    /\ records' = KeptOnFailure(records, calls[c])
    /\ UNCHANGED <<now, policies, timestamps, adapters, keys,
                 allowedPrograms, returned, wallets, payer, tokenManager, runner>>

(* sendTransaction resolves with the hash: confirmTransaction is called *)
SendReturns(c) ==
    /\ calls[c].pc = "send"
    /\ \E h \in TxHashes :
          calls' = [calls EXCEPT ![c] =
             [Invoke(calls[c], "confirmTransaction")
                 EXCEPT !.pc = "confirm", !.txHash = h]]
    /\ UNCHANGED <<now, policies, records, timestamps, history, adapters, keys,
                 allowedPrograms, returned, wallets, payer, tokenManager, runner>>

SendThrows(c) ==
    /\ calls[c].pc = "send"
    /\ calls' = [calls EXCEPT ![c] =
          Caught(calls[c], "sendTransaction",
                 ExecutionError("send", Msg("send", "")))]
    /\ records' = KeptOnFailure(records, calls[c])
    /\ UNCHANGED <<now, policies, timestamps, history, adapters, keys,
                 allowedPrograms, returned, wallets, payer, tokenManager, runner>>

(* confirmTransaction resolves with confirmed *)
\* Mutant of NotConfirmed: an unconfirmed transaction is sent again
NotConfirmedMut(call) ==
    [Invoke(call, "sendTransaction") EXCEPT !.pc = "send"]

\* Mutant of NotConfirmed: the value confirmTransaction resolved with is not
\* looked at
NotConfirmedSucceeds(call) ==
    Finish(call, Success(call.txHash, call.intent.chain))

\* Mutant of NotConfirmed: an unconfirmed transaction is waited for, the
\* call goes back to where sendTransaction had resolved
NotConfirmedPolls(call) ==
    [call EXCEPT !.pc = "send", !.ops = SubSeq(@, 1, Len(@) - 1)]

NotConfirmed(call) == Finish(call, ConfirmationFailure(call.txHash))

ConfirmReturns(c) ==
    /\ calls[c].pc = "confirm"
    /\ \E confirmed \in BOOLEAN :
          /\ calls' = [calls EXCEPT ![c] =
                IF ~confirmed
                THEN NotConfirmed([calls[c] EXCEPT !.confirmed = "false"])
                ELSE Finish([calls[c] EXCEPT !.confirmed = "true"],
                            Success(calls[c].txHash, calls[c].intent.chain))]
          /\ records' = IF ~confirmed THEN KeptOnFailure(records, calls[c])
                        ELSE records
    /\ UNCHANGED <<now, policies, timestamps, history, adapters, keys,
                 allowedPrograms, returned, wallets, payer, tokenManager, runner>>

ConfirmThrows(c) ==
    /\ calls[c].pc = "confirm"
    /\ calls' = [calls EXCEPT ![c] =
          Caught(calls[c], "confirmTransaction",
                 ExecutionError("confirm", Msg("confirm", "")))]
    /\ records' = KeptOnFailure(records, calls[c])
    /\ UNCHANGED <<now, policies, timestamps, history, adapters, keys,
                 allowedPrograms, returned, wallets, payer, tokenManager, runner>>

(* The caller takes the result; the slot is free for the next invocation *)
Return(c) ==
    /\ calls[c].pc = "done"
    /\ calls' = [calls EXCEPT ![c] = IdleCall]
    /\ UNCHANGED <<now, policies, records, timestamps, history, adapters, keys,
                 allowedPrograms, returned, wallets, payer, tokenManager, runner>>

\* The intents an agent hands to execute carry its own wallet id
IntentsOf(agentId) ==
    {i \in RawIntents : i.fromWalletId = WalletOf(agentId)}

SeqCalls == {"c1"}
SeqAgents == {"a1"}

Next ==
    \/ Tick
    \/ \E pid \in PolicyIds : Register(pid)
    \/ \E adapter \in WiredAdapters : RegisterAdapter(adapter)
    \/ \E a \in SeqAgents : KeyStoreStore(WalletOf(a))
    \/ \E a \in SeqAgents : KeyStoreDelete(WalletOf(a))
    \/ \E c \in SeqCalls, a \in SeqAgents : \E i \in IntentsOf(a) : Execute(c, i, a)
    \/ \E c \in SeqCalls : BalanceReturns(c)
    \/ \E c \in SeqCalls : BalanceThrows(c)
    \/ \E c \in SeqCalls : PolicyResumes(c)
    \/ \E c \in SeqCalls : EvaluateAllReturns(c)
    \/ \E c \in SeqCalls : BuildReturns(c)
    \/ \E c \in SeqCalls : BuildThrows(c)
    \/ \E c \in SeqCalls : SignReturns(c)
    \/ \E c \in SeqCalls : SignThrows(c)
    \/ \E c \in SeqCalls : SendReturns(c)
    \/ \E c \in SeqCalls : SendThrows(c)
    \/ \E c \in SeqCalls : ConfirmReturns(c)
    \/ \E c \in SeqCalls : ConfirmThrows(c)
    \/ \E c \in SeqCalls : Return(c)

Spec == Init /\ [][Next]_vars

----------------------------------------------------------------------------
(* The policies called directly: policy.evaluate(intent, context) by any   *)
(* caller, for any agent, half a window apart at the closest               *)

\* Well-formed intents with amounts on both sides of the spending limit
PolicyIntents ==
    {i \in [type : {"transfer"}, chain : {"solana"}, fromWalletId : {"w1"},
            amount : 1..(MaxLamports + 1), tokenMint : BOOLEAN]
        \cup [type : {"swap"}, chain : {"solana"}, fromWalletId : {"w1"},
              amountIn : 1..(MaxLamports + 1)]
        \cup [type : {"create_mint"}, chain : {"solana"},
              fromWalletId : {"w1"}, decimals : {MaxDecimals}]
        \cup [type : {"mint_token"}, chain : {"solana"},
              fromWalletId : {"w1"}, amount : 1..(MaxLamports + 1)] :
        IntentSchema(i)}

\* The agent the direct calls are made for
PolicyAgents == {"a1"}

HalfTick ==
    /\ now < MaxTicks * TickMs
    /\ now' = now + HalfTickMs
    /\ UNCHANGED <<policies, records, timestamps, allowedPrograms, adapters,
                   keys, calls, history, returned, wallets, payer, tokenManager, runner>>

Evaluate(pid, agentId, intent) ==
    LET r == PolicyEvaluate(pid, records, timestamps, intent, agentId, now)
    IN /\ records' = r.records
       /\ timestamps' = r.timestamps
       /\ history' = Observe(history, pid, agentId, intent, r.decision, now)
       /\ returned' = [op |-> "evaluate", policyId |-> pid,
                       agentId |-> agentId, intent |-> intent,
                       decision |-> r.decision, at |-> now,
                       before |-> records[agentId]]
       /\ UNCHANGED <<now, policies, allowedPrograms, adapters, keys, calls,
                      wallets, payer, tokenManager, runner>>

InitObserved ==
    /\ now = 0
    /\ policies = <<>>
    /\ records = [a \in Agents |-> NoRecord]
    /\ timestamps = [a \in Agents |-> <<>>]
    /\ allowedPrograms = AllowedPrograms
    /\ adapters = [chain \in Chains |-> NoAdapter]
    /\ keys = {}
    /\ calls = [c \in Calls |-> IdleCall]
    /\ history = EmptyHistory
    /\ returned = NoReturn
    /\ wallets = {}
    /\ payer = NoPayer
    /\ tokenManager = NewTokenManager
    /\ runner = IdleRunner

(* SpendingLimitPolicy alone *)
NextSpending ==
    \/ HalfTick
    \/ \E a \in PolicyAgents, i \in PolicyIntents : Evaluate("spending-limit", a, i)

SpecSpending == InitObserved /\ [][NextSpending]_vars

(* RateLimitPolicy alone *)
NextRate ==
    \/ HalfTick
    \/ \E a \in PolicyAgents, i \in PolicyIntents : Evaluate("rate-limit", a, i)

SpecRate == InitObserved /\ [][NextRate]_vars

(* ProgramWhitelistPolicy, under any configured allow-set, and the          *)
(* AdapterFactory, both called directly                                    *)
RegisterDirect(adapter) ==
    /\ adapters' = AdapterRegister(adapters, adapter)
    /\ returned' = [op |-> "register", adapter |-> adapter,
                    threw |-> AlreadyRegistered(adapters, adapter)]
    /\ UNCHANGED <<now, policies, records, timestamps, allowedPrograms, keys,
                   calls, history, wallets, payer, tokenManager, runner>>

ResolveDirect(chain) ==
    /\ returned' = [op |-> "resolve", chain |-> chain,
                    adapter |-> AdapterResolve(adapters, chain)]
    /\ UNCHANGED <<now, policies, records, timestamps, allowedPrograms,
                   adapters, keys, calls, history, wallets, payer, tokenManager, runner>>

InitDirect ==
    /\ now = 0
    /\ policies = <<>>
    /\ records = [a \in Agents |-> NoRecord]
    /\ timestamps = [a \in Agents |-> <<>>]
    /\ allowedPrograms \in SUBSET Programs
    /\ adapters = [chain \in Chains |-> NoAdapter]
    /\ keys = {}
    /\ calls = [c \in Calls |-> IdleCall]
    /\ history = EmptyHistory
    /\ returned = NoReturn
    /\ wallets = {}
    /\ payer = NoPayer
    /\ tokenManager = NewTokenManager
    /\ runner = IdleRunner

NextDirect ==
    \/ \E a \in Agents, i \in PolicyIntents :
          Evaluate("program-whitelist", a, i)
    \/ \E adapter \in Adapters : RegisterDirect(adapter)
    \/ \E chain \in Chains : ResolveDirect(chain)

SpecDirect == InitDirect /\ [][NextDirect]_vars

(* Concurrent execute invocations for one agent: every call slot is used, *)
(* the calls interleave at their await points                              *)
ConcIntents ==
    {i \in IntentsOf("a1") :
        /\ IntentSchema(i)
        /\ i.type = "transfer" /\ i.chain = "solana" /\ ~i.tokenMint}

\* The policies registered here: the spending limit and a stateless one
ConcPolicyIds == {"spending-limit", "program-whitelist"}

NextConc ==
    \/ Tick
    \/ \E pid \in ConcPolicyIds : Register(pid)
    \/ \E c \in Calls, i \in ConcIntents : Execute(c, i, "a1")
    \/ \E c \in Calls : BalanceReturns(c)
    \/ \E c \in Calls : BalanceThrows(c)
    \/ \E c \in Calls : PolicyResumes(c)
    \/ \E c \in Calls : EvaluateAllReturns(c)
    \/ \E c \in Calls : Return(c)

SpecConc == InitObserved /\ [][NextConc]_vars

(* The key store, the Signer and the WalletManager called directly *)

\* WalletManager.createWallet: a fresh wallet id, its key stored
CreateWallet(w) ==
    /\ w \notin keys /\ w \notin wallets
    /\ keys' = keys \cup {w}
    /\ wallets' = wallets \cup {w}
    /\ returned' = [op |-> "createWallet", walletId |-> w]
    /\ UNCHANGED <<now, policies, records, timestamps, allowedPrograms,
                   adapters, calls, history, payer, tokenManager, runner>>

\* WalletManager.loadExistingWallets: every listed wallet id that is not in
\* memory is loaded from its key
LoadExistingWallets ==
    LET missing == keys \ wallets IN
    /\ wallets' = wallets \cup missing
    /\ history' = IF ~history.on THEN history
                  ELSE [history EXCEPT !.retrieved = @ \cup
                           {[caller |-> "WalletManager.loadExistingWallets",
                             walletId |-> w] : w \in missing}]
    /\ returned' = [op |-> "loadExistingWallets", loaded |-> missing]
    /\ UNCHANGED <<now, policies, records, timestamps, allowedPrograms,
                   adapters, keys, calls, payer, tokenManager, runner>>

\* signer.sign(walletId, payload): the key is retrieved, then the payload is
\* signed, which may fail as well
SignDirect(w) ==
    \E signs \in BOOLEAN :
       LET ok == SignerKey(keys, w) /\ signs
           h == ObserveRetrieve(history, "Signer.sign", w)
       IN /\ history' = IF ok THEN ObserveSigned(h, w) ELSE h
          /\ returned' = [op |-> "sign", walletId |-> w,
                          threw |-> IF ok THEN "" ELSE "SigningError"]
          /\ UNCHANGED <<now, policies, records, timestamps, allowedPrograms,
                         adapters, keys, calls, wallets, payer, tokenManager, runner>>

\* signer.getSecretKey(walletId)
GetSecretKeyDirect(w) ==
    /\ history' = ObserveRetrieve(history, "Signer.getSecretKey", w)
    /\ returned' = [op |-> "getSecretKey", walletId |-> w,
                    threw |-> IF SignerKey(keys, w) THEN ""
                              ELSE "SigningError"]
    /\ UNCHANGED <<now, policies, records, timestamps, allowedPrograms,
                   adapters, keys, calls, wallets, payer, tokenManager, runner>>

NextKeys ==
    \/ \E w \in Wallets : KeyStoreStore(w)
    \/ \E w \in Wallets : KeyStoreDelete(w)
    \/ \E w \in Wallets : CreateWallet(w)
    \/ LoadExistingWallets
    \/ \E w \in Wallets : SignDirect(w)
    \/ \E w \in Wallets : GetSecretKeyDirect(w)

SpecKeys == InitObserved /\ [][NextKeys]_vars

(* The TokenManagerAgent asked for decisions directly, under any context *)
Decide(meta) ==
    /\ Len(tokenManager.trace) < MaxDecisions
    /\ LET r == TokenManagerStrategy(tokenManager, meta)
       IN /\ tokenManager' = Decided(r)
          /\ returned' = [op |-> "decide", meta |-> meta,
                          before |-> tokenManager.state, intent |-> r.intent]
    /\ UNCHANGED <<now, policies, records, timestamps, allowedPrograms,
                   adapters, keys, calls, history, wallets, payer, runner>>

NextAgent == \E meta \in Metas : Decide(meta)

SpecAgent == Init /\ [][NextAgent]_vars

(* ScenarioRunner.run over the agents of TokenEcosystemScenario: a token   *)
(* manager and a random-transfer peer.  The executor is the injected       *)
(* IExecutor: execute resolves with a Success or a Failure                 *)

\* RandomTransferAgent.strategy: null without balance, else a transfer
RandomTransferStrategy(balance, amount) ==
    IF balance <= 0 THEN NoIntent
    ELSE [type |-> "transfer", chain |-> "solana", fromWalletId |-> "w2",
          amount |-> amount, tokenMint |-> FALSE]

\* The loops of run move on to the next agent, the next round, or the end
Advance(r) ==
    IF r.idx < Len(ScenarioAgents)
    THEN [r EXCEPT !.idx = @ + 1, !.pc = "context"]
    ELSE IF r.tick + 1 < r.rounds
         THEN [r EXCEPT !.tick = @ + 1, !.idx = 1, !.pc = "context",
                        !.submitted = {}]
         ELSE [r EXCEPT !.pc = "finished"]

\* The agent's turn goes on with the intent it decided on: null skips the
\* tick ("continue"), an intent is handed to executor.execute
Submit(r, intent) ==
    IF intent = NoIntent THEN Advance(r)
    ELSE [r EXCEPT !.pc = "execute",
                   !.executing = @ \cup {r.idx},
                   !.submitted = @ \cup {r.idx},
                   !.together = @ \/ r.submitted # {},
                   !.overlapped = @ \/ r.executing # {}]

\* run(rounds) is called: the first agent's context is built
RunnerRun(rounds) ==
    /\ runner.pc = "idle"
    /\ runner' = [IdleRunner EXCEPT !.pc = "context", !.rounds = rounds,
                                    !.idx = 1]
    /\ UNCHANGED <<now, policies, records, timestamps, allowedPrograms,
                   adapters, keys, calls, history, returned, wallets, payer,
                   tokenManager>>

\* buildAgentContext resolves: agent.decide(context) is called
ContextReturns ==
    /\ runner.pc = "context"
    /\ runner' = [runner EXCEPT !.pc = "decide",
                                !.overlapped = @ \/ runner.executing # {}]
    /\ UNCHANGED <<now, policies, records, timestamps, allowedPrograms,
                   adapters, keys, calls, history, returned, wallets, payer,
                   tokenManager>>

\* buildAgentContext rejects (balance lookup): "Agent tick error", then the
\* delay
ContextThrows ==
    /\ runner.pc = "context"
    /\ runner' = [runner EXCEPT !.pc = "delay"]
    /\ UNCHANGED <<now, policies, records, timestamps, allowedPrograms,
                   adapters, keys, calls, history, returned, wallets, payer,
                   tokenManager>>

\* agent.decide resolves
DecideReturns ==
    /\ runner.pc = "decide"
    /\ IF ScenarioAgents[runner.idx] = "token-manager"
       THEN LET r == TokenManagerStrategy(tokenManager, RunnerMeta)
            IN /\ tokenManager' = Decided(r)
               /\ runner' = Submit(runner, r.intent)
       ELSE /\ \E balance \in {0} \cup Balances, amount \in 1..MaxAmount :
                  runner' = Submit(runner,
                                   RandomTransferStrategy(balance, amount))
            /\ UNCHANGED tokenManager
    /\ UNCHANGED <<now, policies, records, timestamps, allowedPrograms,
                   adapters, keys, calls, history, returned, wallets, payer>>

\* executor.execute resolves with a Success (ok) or a Failure: the delay
\* between agent actions begins
ExecuteReturns(ok) ==
    /\ runner.pc = "execute"
    /\ runner' = [runner EXCEPT !.pc = "delay",
                                !.executing = @ \ {runner.idx},
                                !.allSucceeded = @ /\ ok]
    /\ UNCHANGED <<now, policies, records, timestamps, allowedPrograms,
                   adapters, keys, calls, history, returned, wallets, payer,
                   tokenManager>>

\* The delay is over
DelayReturns ==
    /\ runner.pc = "delay"
    /\ runner' = Advance(runner)
    /\ UNCHANGED <<now, policies, records, timestamps, allowedPrograms,
                   adapters, keys, calls, history, returned, wallets, payer,
                   tokenManager>>

NextScenario ==
    \/ \E rounds \in 1..MaxRounds : RunnerRun(rounds)
    \/ ContextReturns
    \/ ContextThrows
    \/ DecideReturns
    \/ \E ok \in BOOLEAN : ExecuteReturns(ok)
    \/ DelayReturns

SpecScenario == Init /\ [][NextScenario]_vars

(* SolanaTransactionBuilder.buildSwap called for swap intents of two       *)
(* wallets, the calls interleaving at their awaits: getSecretKey, then     *)
(* setPayerFromBytes, then swap                                            *)
SwapIntentsOf(w) ==
    [type : {"swap"}, chain : {"solana"}, fromWalletId : {w},
     amountIn : 1..MaxAmount]

InitSwap ==
    /\ now = 0
    /\ policies = <<>>
    /\ records = [a \in Agents |-> NoRecord]
    /\ timestamps = [a \in Agents |-> <<>>]
    /\ allowedPrograms = AllowedPrograms
    /\ adapters = [chain \in Chains |->
                      IF chain = "solana" THEN SolanaAdapter ELSE NoAdapter]
    /\ keys = Wallets
    /\ calls = [c \in Calls |-> IdleCall]
    /\ history = NoHistory
    /\ returned = NoReturn
    /\ wallets = Wallets
    /\ payer = NoPayer
    /\ tokenManager = NewTokenManager
    /\ runner = IdleRunner

\* buildSwap(intent) is called: it awaits getSecretKey(intent.fromWalletId)
BuildSwap(c, intent) ==
    /\ calls[c].pc = "idle"
    /\ calls' = [calls EXCEPT ![c] =
          [Invoke([IdleCall EXCEPT !.intent = intent], "getSecretKey")
              EXCEPT !.pc = "getSecretKey"]]
    /\ UNCHANGED <<now, policies, records, timestamps, history, adapters, keys,
                   allowedPrograms, returned, wallets, payer, tokenManager, runner>>

\* getSecretKey resolves with the key of the wallet: setPayerFromBytes is
\* called with it and awaited
SecretKeyReturns(c) ==
    /\ calls[c].pc = "getSecretKey"
    /\ KeyStoreRetrieve(keys, calls[c].intent.fromWalletId)
    /\ calls' = [calls EXCEPT ![c] =
          [Invoke(calls[c], "setPayerFromBytes")
              EXCEPT !.pc = "setPayerFromBytes"]]
    /\ history' = ObserveRetrieve(history, "Signer.getSecretKey",
                                  calls[c].intent.fromWalletId)
    /\ UNCHANGED <<now, policies, records, timestamps, adapters, keys,
                   allowedPrograms, returned, wallets, payer, tokenManager, runner>>

\* setPayerFromBytes installs the key as the process-wide payer and resolves
SetPayerReturns(c) ==
    /\ calls[c].pc = "setPayerFromBytes"
    /\ payer' = calls[c].intent.fromWalletId
    /\ calls' = [calls EXCEPT ![c].pc = "payerSet"]
    /\ UNCHANGED <<now, policies, records, timestamps, history, adapters, keys,
                   allowedPrograms, returned, wallets,
                 tokenManager, runner>>

\* buildSwap resumes behind "await setPayerFromBytes" and calls swap(), which
\* works with the payer in effect
SwapCalled(c) ==
    /\ calls[c].pc = "payerSet"
    /\ calls' = [calls EXCEPT ![c] =
          [Invoke(calls[c], "swap") EXCEPT !.pc = "swap"]]
    /\ UNCHANGED <<now, policies, records, timestamps, history, adapters, keys,
                   allowedPrograms, returned, wallets, payer, tokenManager, runner>>

\* swap() resolves and buildSwap returns the transaction
SwapReturns(c) ==
    /\ calls[c].pc = "swap"
    /\ calls' = [calls EXCEPT ![c] = IdleCall]
    /\ UNCHANGED <<now, policies, records, timestamps, history, adapters, keys,
                   allowedPrograms, returned, wallets, payer, tokenManager, runner>>

NextSwap ==
    \/ \E c \in Calls, w \in Wallets :
          \E i \in SwapIntentsOf(w) : BuildSwap(c, i)
    \/ \E c \in Calls : SecretKeyReturns(c)
    \/ \E c \in Calls : SetPayerReturns(c)
    \/ \E c \in Calls : SwapCalled(c)
    \/ \E c \in Calls : SwapReturns(c)

SpecSwap == InitSwap /\ [][NextSwap]_vars

(* One execute invocation after the other on the wired executor, every     *)
(* collaborator free to resolve or reject; each pending collaborator call  *)
(* of an invocation eventually resolves or rejects                         *)
InitLive ==
    /\ now = 0
    /\ policies = <<"spending-limit", "program-whitelist", "rate-limit">>
    /\ records = [a \in Agents |-> NoRecord]
    /\ timestamps = [a \in Agents |-> <<>>]
    /\ allowedPrograms = AllowedPrograms
    /\ adapters = [chain \in Chains |->
                      IF chain = "solana" THEN SolanaAdapter ELSE NoAdapter]
    /\ keys = {"w1"}
    /\ calls = [c \in Calls |-> IdleCall]
    /\ history = NoHistory
    /\ returned = NoReturn
    /\ wallets = {"w1"}
    /\ payer = NoPayer
    /\ tokenManager = NewTokenManager
    /\ runner = IdleRunner

\* A collaborator call the invocation awaits resolves or rejects, or the
\* invocation resumes from an await
Resumes(c) ==
    \/ BalanceReturns(c) \/ BalanceThrows(c)
    \/ PolicyResumes(c) \/ EvaluateAllReturns(c)
    \/ BuildReturns(c) \/ BuildThrows(c)
    \/ SignReturns(c) \/ SignThrows(c)
    \/ SendReturns(c) \/ SendThrows(c)
    \/ ConfirmReturns(c) \/ ConfirmThrows(c)

NextLive ==
    \/ Tick
    \/ \E c \in SeqCalls : \E i \in IntentsOf("a1") : Execute(c, i, "a1")
    \/ \E c \in SeqCalls : Resumes(c)
    \/ \E c \in SeqCalls : Return(c)

SpecLive ==
    InitLive /\ [][NextLive]_vars /\ \A c \in SeqCalls : WF_vars(Resumes(c))

(* The policies called directly for two agents, each agent with intents of *)
(* its own wallet                                                          *)
IsolationIntents(agentId) ==
    [type : {"transfer"}, chain : {"solana"}, fromWalletId : {WalletOf(agentId)},
     amount : {1, MaxLamports}, tokenMint : {FALSE}]

\* The clock moves on while the bound of this specification allows
TickIsolation == now < IsolationTicks * TickMs /\ Tick

NextIsolation ==
    \/ TickIsolation
    \/ \E pid \in PolicyIds, a \in Agents :
          \E i \in IsolationIntents(a) : Evaluate(pid, a, i)

SpecIsolation == Init /\ [][NextIsolation]_vars

(* Repeated execute invocations: the caller hands in intents that carry an *)
(* id and may hand in the same intent again.  The executor is wired as the *)
(* composition root wires it: the three policies, the Solana adapter, the  *)
(* agent's key in the key store                                            *)
ReplayIntents ==
    [type : {"transfer"}, chain : {"solana"}, fromWalletId : {"w1"},
     amount : 1..MaxAmount, tokenMint : {FALSE}, id : IntentIds]

InitReplay ==
    /\ now = 0
    /\ policies = <<"spending-limit", "program-whitelist", "rate-limit">>
    /\ records = [a \in Agents |-> NoRecord]
    /\ timestamps = [a \in Agents |-> <<>>]
    /\ allowedPrograms = AllowedPrograms
    /\ adapters = [chain \in Chains |->
                      IF chain = "solana" THEN SolanaAdapter ELSE NoAdapter]
    /\ keys = {"w1"}
    /\ calls = [c \in Calls |-> IdleCall]
    /\ history = EmptyHistory
    /\ returned = NoReturn
    /\ wallets = {"w1"}
    /\ payer = NoPayer
    /\ tokenManager = NewTokenManager
    /\ runner = IdleRunner

NextReplay ==
    \/ Tick
    \/ \E c \in SeqCalls, i \in ReplayIntents : Execute(c, i, "a1")
    \/ \E c \in SeqCalls : BalanceReturns(c)
    \/ \E c \in SeqCalls : PolicyResumes(c)
    \/ \E c \in SeqCalls : EvaluateAllReturns(c)
    \/ \E c \in SeqCalls : BuildReturns(c)
    \/ \E c \in SeqCalls : SignReturns(c)
    \/ \E c \in SeqCalls : SendReturns(c)
    \/ \E c \in SeqCalls : ConfirmReturns(c)
    \/ \E c \in SeqCalls : Return(c)

SpecReplay == InitReplay /\ [][NextReplay]_vars

----------------------------------------------------------------------------
(* Properties of the pipeline *)

Has(call, op) == \E i \in 1..Len(call.ops) : call.ops[i] = op
Count(call, op) == Cardinality({i \in 1..Len(call.ops) : call.ops[i] = op})

\* The operations that build, sign and submit a transaction
GatedOps == {"buildTransaction", "sign", "sendTransaction",
             "confirmTransaction"}

\* C1 (policy gate): an execute call invokes buildTransaction, sign,
\* sendTransaction or confirmTransaction only after evaluateAll was invoked
\* and returned an Allow to that same call; a call to which evaluateAll
\* returned a Deny has invoked none of the four.
C1_PolicyGate ==
    \A c \in Calls :
      LET call == calls[c] IN
      /\ \A i \in 1..Len(call.ops) :
            call.ops[i] \in GatedOps =>
               /\ call.decision.allowed
               /\ \E j \in 1..(i - 1) : call.ops[j] = "evaluateAll"
      /\ (Has(call, "evaluateAll") /\ call.pc \in {"evaluateAll", "done"}
            /\ ~call.decision.allowed)
            => \A op \in GatedOps : ~Has(call, op)

\* A call ran the whole pipeline behind an Allow
C1_Witness ==
    \E c \in Calls :
       /\ calls[c].pc = "done"
       /\ calls[c].decision.allowed
       /\ \A op \in GatedOps : Has(calls[c], op)

\* C2 (validation fails closed): a call whose intent fails the schema ends
\* with Failure{VALIDATION_ERROR, failedAt validation} in the step that
\* starts it, has invoked no collaborator (balance lookup, evaluateAll,
\* router, adapter, signer) and evaluated no policy, and that step changes
\* no spend record and no rate timestamp.
C2_Invalid(call) == call.pc # "idle" /\ ~IntentSchema(call.intent)

C2_ValidationFailsClosed ==
    /\ [](\A c \in Calls :
            C2_Invalid(calls[c]) =>
               /\ calls[c].pc = "done"
               /\ calls[c].result.status = "failure"
               /\ calls[c].result.errorCode = "VALIDATION_ERROR"
               /\ calls[c].result.failedAt = "validation"
               /\ calls[c].ops = <<>>
               /\ calls[c].evaluated = <<>>)
    /\ [][\A c \in Calls :
            (calls[c].pc = "idle" /\ C2_Invalid(calls'[c]))
               => UNCHANGED <<records, timestamps, policies, adapters, keys>>]_vars

\* An ill-formed intent was executed while the spending policy held a record
C2_Witness ==
    \E c \in Calls :
       /\ C2_Invalid(calls[c])
       /\ calls[c].pc = "done"
       /\ policies # <<>>
       /\ \E a \in Agents : records[a] # NoRecord

\* C3 (no later stage after a failure): the operation that threw is the
\* last one the call invoked: after a failed buildTransaction no sign, after
\* a failed sign no sendTransaction, after a failed sendTransaction no
\* confirmTransaction.
C3_NoStageAfterFailure ==
    \A c \in Calls :
      LET call == calls[c] IN
      call.thrown # "" =>
         /\ call.pc = "done"
         /\ call.ops[Len(call.ops)] = call.thrown
         /\ Count(call, call.thrown) = 1
         /\ call.thrown = "buildTransaction" =>
               ~Has(call, "sign") /\ ~Has(call, "sendTransaction")
                  /\ ~Has(call, "confirmTransaction")
         /\ call.thrown = "sign" =>
               ~Has(call, "sendTransaction") /\ ~Has(call, "confirmTransaction")
         /\ call.thrown = "sendTransaction" => ~Has(call, "confirmTransaction")

\* Signing failed after a successful build
C3_Witness ==
    \E c \in Calls :
       /\ calls[c].thrown = "sign"
       /\ Has(calls[c], "buildTransaction")
       /\ calls[c].pc = "done"

C5_Denied(call) ==
    /\ call.pc = "done"
    /\ Has(call, "evaluateAll")
    /\ ~call.decision.allowed

C5_DenialReported ==
    \A c \in Calls :
      LET call == calls[c] IN
      C5_Denied(call) =>
         LET denier == call.evaluated[Len(call.evaluated)] IN
         /\ call.evaluated # <<>>
         /\ ~denier.decision.allowed
         /\ denier.decision.policyId = denier.policyId
         /\ call.decision = denier.decision
         /\ call.result.status = "failure"
         /\ call.result.errorCode = "POLICY_VIOLATION"
         /\ call.result.failedAt = "policy"
         /\ call.result.errorMessage = denier.decision.reason
         /\ call.result.cause.cls = "PolicyViolation"
         /\ call.result.cause.policyId = denier.policyId
         /\ call.result.cause.reason = denier.decision.reason

\* The rate limit, registered second, denied the call
C5_Witness ==
    \E c \in Calls :
       /\ C5_Denied(calls[c])
       /\ Len(calls[c].evaluated) = 2
       /\ calls[c].result.cause.policyId = "rate-limit"

\* C6 (confirmation failure is a value, not retried): when
\* confirmTransaction resolved with false the call ends with
\* Failure{CONFIRMATION_FAILED, failedAt confirm}, nothing threw, and
\* sendTransaction and confirmTransaction were each invoked exactly once.
C6_ConfirmationFailed ==
    \A c \in Calls :
      LET call == calls[c] IN
      call.confirmed = "false" =>
         /\ call.pc = "done"
         /\ call.thrown = ""
         /\ call.result.status = "failure"
         /\ call.result.errorCode = "CONFIRMATION_FAILED"
         /\ call.result.failedAt = "confirm"
         /\ Count(call, "sendTransaction") = 1
         /\ Count(call, "confirmTransaction") = 1
         /\ call.ops[Len(call.ops)] = "confirmTransaction"

C6_Witness ==
    \E c \in Calls :
       /\ calls[c].confirmed = "false"
       /\ calls[c].pc = "done"
       /\ calls[c].txHash \in TxHashes

\* C7 (signing failure is a sign-stage failure): when Signer.sign threw its
\* SigningError the call ends with a Failure whose failedAt is sign.
C7_SignFailureAtSign ==
    \A c \in Calls :
      calls[c].thrown = "sign" =>
         /\ calls[c].result.status = "failure"
         /\ calls[c].result.failedAt = "sign"

----------------------------------------------------------------------------
(* Properties of the policy engine *)

\* Every registration order of the policies registered in registry
C8_Orders(registry) ==
    {p \in [1..Len(registry) -> {registry[i] : i \in 1..Len(registry)}] :
        \A i \in 1..Len(registry) : \E j \in 1..Len(registry) : p[j] = registry[i]}

\* C8 (no Allow against a denying policy, whatever the order): in every
\* state in which a call is about to invoke evaluateAll, evaluateAll run on
\* that state returns Allow only if every registered policy, evaluated on
\* its current state, allows the intent, and its allow/deny outcome is the
\* same for every registration order of the same policies.
C8_OrderIndependent ==
    \A c \in Calls :
      LET call == calls[c]
          Run(registry) ==
             EvaluateAll(registry, records, timestamps, call.intent,
                         call.agentId, now).decision
          Alone(pid) ==
             PolicyEvaluate(pid, records, timestamps, call.intent,
                            call.agentId, now).decision
      IN call.pc = "getBalance" =>
           /\ Run(policies).allowed =>
                 \A i \in 1..Len(policies) : Alone(policies[i]).allowed
           /\ \A p \in C8_Orders(policies) :
                 Run(p).allowed = Run(policies).allowed

\* evaluateAll is about to run on three policies of which the rate limit,
\* registered last, would deny while the other two allow
C8_Witness ==
    \E c \in Calls :
       /\ calls[c].pc = "getBalance"
       /\ Len(policies) = 3
       /\ policies[3] = "rate-limit"
       /\ ~RateLimitEvaluate(timestamps, calls[c].intent, calls[c].agentId,
                             now).decision.allowed
       /\ SpendingLimitEvaluate(records, calls[c].intent, calls[c].agentId,
                                now).decision.allowed
       /\ ProgramWhitelistEvaluate(calls[c].intent).allowed

\* C9 (short-circuit): a call evaluates the policies in registration order
\* and evaluates nothing after a Deny; the decision evaluateAll returns on a
\* denial is that first Deny; and a spend record or a rate timestamp changes
\* only in the step in which a call evaluates the policy owning it, before
\* any denial in that call.
C9_Returned(call) ==
    Has(call, "evaluateAll") /\ call.pc \notin {"policy"}

C9_EvaluationStep(c) ==
    /\ Len(calls'[c].evaluated) = Len(calls[c].evaluated) + 1
    /\ \A k \in 1..Len(calls[c].evaluated) :
          calls[c].evaluated[k].decision.allowed
    /\ LET e == calls'[c].evaluated[Len(calls'[c].evaluated)] IN
       /\ e.policyId = policies[Len(calls'[c].evaluated)]
       /\ records' # records => e.policyId = "spending-limit"
       /\ timestamps' # timestamps => e.policyId = "rate-limit"

C9_ShortCircuit ==
    /\ [](\A c \in Calls :
            LET call == calls[c]
                ev == call.evaluated
            IN /\ Len(ev) <= Len(policies)
               /\ \A k \in 1..Len(ev) : ev[k].policyId = policies[k]
               /\ \A k \in 1..(Len(ev) - 1) : ev[k].decision.allowed
               /\ (C9_Returned(call) /\ ~call.decision.allowed) =>
                     /\ ev # <<>>
                     /\ call.decision = ev[Len(ev)].decision
                     /\ call.decision.policyId = policies[Len(ev)])
    /\ [][(records' # records \/ timestamps' # timestamps) =>
             \E c \in Calls : C9_EvaluationStep(c)]_vars

\* The whitelist, registered first, denied a swap; the spending limit and
\* the rate limit registered after it were not evaluated and hold no state
\* of the agent
C9_Witness ==
    \E c \in Calls :
       /\ calls[c].pc = "done"
       /\ policies = <<"program-whitelist", "spending-limit", "rate-limit">>
       /\ Len(calls[c].evaluated) = 1
       /\ ~calls[c].decision.allowed
       /\ records[calls[c].agentId] = NoRecord
       /\ timestamps[calls[c].agentId] = <<>>

\* C10 (synthetic Allow): once evaluateAll has returned to a call, the
\* decision is the Allow tagged "policy-engine" exactly when the call
\* evaluated every registered policy and each returned Allow; no other Allow
\* is ever returned; with no policy registered the decision is that Allow.
C10_AllEvaluatedAllowed(call) ==
    /\ Len(call.evaluated) = Len(policies)
    /\ \A k \in 1..Len(call.evaluated) :
          /\ call.evaluated[k].policyId = policies[k]
          /\ call.evaluated[k].decision.allowed

C10_SyntheticAllow ==
    \A c \in Calls :
      LET call == calls[c] IN
      C9_Returned(call) =>
         /\ (call.decision = PolicyAllow("policy-engine"))
               <=> C10_AllEvaluatedAllowed(call)
         /\ call.decision.allowed => call.decision.policyId = "policy-engine"
         /\ policies = <<>> => call.decision = PolicyAllow("policy-engine")

\* Three registered policies all allowed and evaluateAll returned
C10_Witness ==
    \E c \in Calls :
       /\ calls[c].pc = "evaluateAll"
       /\ calls[c].decision = PolicyAllow("policy-engine")
       /\ Len(policies) = 3
       /\ Len(calls[c].evaluated) = 3

----------------------------------------------------------------------------
(* Properties of the policies *)

RECURSIVE C11_SumOver(_, _)
C11_SumOver(f, S) ==
    IF S = {} THEN 0
    ELSE LET x == CHOOSE y \in S : TRUE IN f[x] + C11_SumOver(f, S \ {x})

\* The latest direct call was policy pid's evaluate
Evaluated(pid) == returned.op = "evaluate" /\ returned.policyId = pid

\* What SpendingLimitPolicy allowed agent a from instant t on
C11_AllowedSince(a, t) ==
    C11_SumOver(history.spent[a], {u \in Times : u >= t})

\* C11 (spending bound): for every agent the amounts SpendingLimitPolicy
\* allowed within the current accounting window add up to the record's
\* totalSpent, and totalSpent is between 0 and maxLamports in every reachable
\* state, so the sum allowed within any one window never exceeds maxLamports.
C11_SpendingBound ==
    \A a \in Agents :
        records[a] # NoRecord =>
            /\ 0 <= records[a].totalSpent
            /\ records[a].totalSpent <= MaxLamports
            /\ C11_AllowedSince(a, records[a].windowStart)
                   = records[a].totalSpent

\* Two amounts allowed at different instants of one window fill the limit,
\* and the next amount was refused
C11_Witness ==
    /\ records["a1"].totalSpent = MaxLamports
    /\ \E t1, t2 \in Times :
          /\ records["a1"].windowStart <= t1 /\ t1 < t2
          /\ history.spent["a1"][t1] > 0 /\ history.spent["a1"][t2] > 0
    /\ Evaluated("spending-limit") /\ ~returned.decision.allowed

\* totalSpent of a record, nothing spent when the agent has no record yet
C12_Spent(record) == IF record = NoRecord THEN 0 ELSE record.totalSpent

\* The sum the amount is added to: 0 when the agent had no record or its
\* window was over at the time of the call, else the record's totalSpent
C12_Base ==
    IF returned.before = NoRecord
          \/ returned.at - returned.before.windowStart > WindowMs
    THEN 0 ELSE returned.before.totalSpent

\* C12 as stated: a call of SpendingLimitPolicy.evaluate that returns Deny
\* leaves the agent's totalSpent exactly as it was before the call.
C12_DenyLeavesTotalSpent ==
    (Evaluated("spending-limit") /\ ~returned.decision.allowed) =>
        C12_Spent(records[returned.agentId]) = C12_Spent(returned.before)

\* C12 (amended): an amount that pushes the projected sum over maxLamports is
\* always denied, and a call that returns Deny never adds the denied amount:
\* it leaves totalSpent at the value the projection started from, which is
\* the value before the call unless the window was over, and 0 then.
C12_DenyAddsNothing ==
    (Evaluated("spending-limit")
        /\ returned.intent.type \in {"transfer", "swap"}) =>
        /\ C12_Base + AmountOf(returned.intent) > MaxLamports
               => ~returned.decision.allowed
        /\ ~returned.decision.allowed =>
               /\ records[returned.agentId].totalSpent = C12_Base
               /\ returned.decision.reason.a
                      = C12_Base + AmountOf(returned.intent)

\* A denial made after the window was over: the old sum was dropped
C12_Witness ==
    /\ Evaluated("spending-limit") /\ ~returned.decision.allowed
    /\ returned.before # NoRecord /\ returned.before.totalSpent > 0
    /\ records[returned.agentId].totalSpent = 0

\* The evaluations RateLimitPolicy allowed agent a in the 60 seconds that end
\* at instant t: those less than 60 000 ms old at t, t itself included
C13_AllowedWithin(a, t) ==
    C11_SumOver(history.allowed[a],
                {u \in Times : u > t - RateWindowMs /\ u <= t})

\* C13 (rate cap): for every agent and every instant t, at most
\* maxTxPerMinute evaluations were allowed in the 60-second span ending at t
\* (allowed evaluations less than 60 000 ms old), so an evaluation made while
\* maxTxPerMinute allowed ones lie in that span is denied whatever the
\* intent's kind or amount.
C13_RateCap ==
    /\ \A a \in Agents, t \in Times :
           C13_AllowedWithin(a, t) <= MaxTxPerMinute
    /\ (Evaluated("rate-limit") /\ returned.decision.allowed) =>
           C13_AllowedWithin(returned.agentId, returned.at) - 1
               < MaxTxPerMinute

\* The span is full with evaluations allowed at two different instants, and
\* the next evaluation was denied
C13_Witness ==
    /\ Evaluated("rate-limit") /\ ~returned.decision.allowed
    /\ C13_AllowedWithin(returned.agentId, returned.at) = MaxTxPerMinute
    /\ \E t1 \in Times :
          /\ t1 < returned.at /\ t1 > returned.at - RateWindowMs
          /\ history.allowed[returned.agentId][t1] > 0
          /\ history.allowed[returned.agentId][returned.at] > 0

\* C14 (no early denial): RateLimitPolicy denies only when maxTxPerMinute
\* allowed evaluations of the agent lie in the preceding 60 seconds, so an
\* evaluation is allowed whenever fewer do; allowed evaluations 60 seconds
\* old or older and denied evaluations do not count.
C14_AllowedBelowCap ==
    (Evaluated("rate-limit") /\ ~returned.decision.allowed) =>
        C13_AllowedWithin(returned.agentId, returned.at) >= MaxTxPerMinute

\* An evaluation allowed although more than maxTxPerMinute were allowed
\* before it: the older ones are out of the span
C14_Witness ==
    /\ Evaluated("rate-limit") /\ returned.decision.allowed
    /\ C11_SumOver(history.allowed[returned.agentId], Times)
           > MaxTxPerMinute + 1
    /\ C13_AllowedWithin(returned.agentId, returned.at) < MaxTxPerMinute

\* The program an intent is resolved to: the system program for a transfer
\* without tokenMint, the token program for one with it, the swap program
\* for a swap, none for any other kind
C15_Resolved(intent) ==
    CASE intent.type = "transfer" /\ ~intent.tokenMint -> {SystemProgram}
      [] intent.type = "transfer" /\ intent.tokenMint -> {TokenProgram}
      [] intent.type = "swap" -> {JupiterProgram}
      [] OTHER -> {}

\* C15 (whitelist): ProgramWhitelistPolicy denies exactly when a program the
\* intent is resolved to is absent from the configured allow-set, whatever
\* the amount, the agent and the earlier evaluations, and the Deny names a
\* program that is resolved and absent.
C15_WhitelistDecision ==
    Evaluated("program-whitelist") =>
        LET absent == C15_Resolved(returned.intent) \ allowedPrograms IN
        /\ ~returned.decision.allowed <=> absent # {}
        /\ ~returned.decision.allowed =>
               returned.decision.reason.program \in absent

\* A plain transfer refused because the allow-set lacks the system program
C15_Witness ==
    /\ Evaluated("program-whitelist") /\ ~returned.decision.allowed
    /\ returned.intent.type = "transfer" /\ ~returned.intent.tokenMint
    /\ returned.decision.reason.program = SystemProgram
    /\ TokenProgram \in allowedPrograms

\* The latest direct call was AdapterFactory.register
C19_Registered == returned.op = "register"

\* C19 (one adapter per chain): a chain is bound to at most one adapter, an
\* adapter of that chain, and a binding never changes once made;
\* AdapterFactory.register throws exactly when the adapter's chain is bound
\* already and then leaves the map as it was, and binds the adapter otherwise.
C19_RegisterOnce ==
    /\ [](\A chain \in Chains :
             adapters[chain] # NoAdapter =>
                 /\ adapters[chain] \in Adapters
                 /\ adapters[chain].chain = chain)
    /\ [][(\A chain \in Chains :
              adapters[chain] # NoAdapter =>
                  adapters'[chain] = adapters[chain])
          /\ (returned'.op = "register" =>
                 LET adapter == returned'.adapter IN
                 /\ returned'.threw <=> adapters[adapter.chain] # NoAdapter
                 /\ returned'.threw => adapters' = adapters
                 /\ ~returned'.threw =>
                        adapters' = [adapters EXCEPT ![adapter.chain] = adapter])
         ]_vars

\* A second adapter of a bound chain was refused and the first one is kept
C19_Witness ==
    /\ C19_Registered /\ returned.threw
    /\ adapters[returned.adapter.chain] # NoAdapter
    /\ adapters[returned.adapter.chain] # returned.adapter

\* The collaborator operations of execute in the order of its stages
C17_Pipeline ==
    <<"getBalance", "evaluateAll", "resolve", "buildTransaction", "sign",
      "sendTransaction", "confirmTransaction">>

\* C17 (success): execute returns a Success only if the intent passed
\* validation, evaluateAll returned an Allow, buildTransaction, sign and
\* sendTransaction each returned without error and confirmTransaction returned
\* true; the Success carries the hash sendTransaction returned and the
\* intent's chain.
C17_SuccessOnlyIf ==
    \A c \in Calls :
      LET call == calls[c] IN
      call.result.status = "success" =>
         /\ IntentSchema(call.intent)
         /\ call.decision.allowed
         /\ \A i \in 1..Len(call.evaluated) : call.evaluated[i].decision.allowed
         /\ call.ops = C17_Pipeline
         /\ call.thrown = ""
         /\ call.confirmed = "true"
         /\ call.txHash \in TxHashes
         /\ call.result.txHash = call.txHash
         /\ call.result.chain = call.intent.chain

\* A call that went through the three policies returned a Success
C17_Witness ==
    \E c \in Calls :
       /\ calls[c].result.status = "success"
       /\ calls[c].result.txHash = "h2"
       /\ Len(calls[c].evaluated) = 3

\* The operation a call is waiting for is the last one it invoked: how many
\* operations a call at position pc has invoked
C18_Invoked(pc) ==
    CASE pc = "idle" -> {0}
      [] pc = "getBalance" -> {1}
      [] pc \in {"policy", "evaluateAll"} -> {2}
      [] pc = "build" -> {4}
      [] pc = "sign" -> {5}
      [] pc = "send" -> {6}
      [] pc = "confirm" -> {7}
      [] OTHER -> 0..7

\* C18 (stage order): within one execute call the collaborator operations
\* are invoked in the order balance lookup, evaluateAll, resolve and
\* buildTransaction, sign, sendTransaction, confirmTransaction, each at most
\* once and each only when the one before it has returned, and the balance is
\* never read after signing.
C18_StageOrder ==
    \A c \in Calls :
      LET call == calls[c] IN
      /\ Len(call.ops) <= Len(C17_Pipeline)
      /\ call.ops = SubSeq(C17_Pipeline, 1, Len(call.ops))
      /\ Len(call.ops) \in C18_Invoked(call.pc)
      /\ \A op \in {"getBalance", "evaluateAll", "sign"} : Count(call, op) <= 1
      /\ \A i, j \in 1..Len(call.ops) :
            (call.ops[i] = "sign" /\ call.ops[j] = "getBalance") => j < i

\* A call waiting for confirmTransaction has gone through every operation
C18_Witness ==
    \E c \in Calls :
       /\ calls[c].pc = "confirm"
       /\ calls[c].ops = C17_Pipeline

\* C20 (adapter resolution): the adapter a call resolved is the one
\* registered under the intent's chain, an adapter of that chain; when none is
\* registered resolve throws, the call ends with a Failure, and
\* buildTransaction, sign and sendTransaction are not invoked.
C20_AdapterResolution ==
    \A c \in Calls :
      LET call == calls[c] IN
      Has(call, "resolve") =>
         /\ call.adapter = adapters[call.intent.chain]
         /\ call.adapter # NoAdapter =>
               /\ call.adapter.chain = call.intent.chain
               /\ call.thrown # "resolve"
         /\ call.adapter = NoAdapter =>
               /\ call.thrown = "resolve"
               /\ call.pc = "done"
               /\ call.result.status = "failure"
               /\ \A op \in GatedOps : ~Has(call, op)

\* An allowed intent for a chain without adapter, while another chain has one
C20_Witness ==
    \E c \in Calls :
       /\ calls[c].thrown = "resolve"
       /\ calls[c].result.status = "failure"
       /\ calls[c].intent.chain = "eth"
       /\ adapters["solana"] = SolanaAdapter
       /\ Len(calls[c].evaluated) > 0

\* The call slots holding a call of agent a that SpendingLimitPolicy allowed
C16_AllowedCalls(a) ==
    {c \in Calls :
        /\ calls[c].agentId = a
        /\ \E i \in 1..Len(calls[c].evaluated) :
              /\ calls[c].evaluated[i].policyId = "spending-limit"
              /\ calls[c].evaluated[i].decision.allowed}

\* C16 (no lost update): under every interleaving of concurrent execute
\* calls of one agent, what SpendingLimitPolicy allowed the agent within the
\* current window is exactly the record's totalSpent and at most
\* maxLamports, and while the first window is open the amounts of the calls
\* it allowed add up to at most maxLamports.
C16_NoLostUpdate ==
    \A a \in Agents :
        records[a] # NoRecord =>
            LET allowedInWindow ==
                    C11_SumOver(history.spent[a],
                                {u \in Times : u >= records[a].windowStart})
                amounts == [c \in Calls |-> AmountOf(calls[c].intent)]
            IN /\ allowedInWindow = records[a].totalSpent
               /\ allowedInWindow <= MaxLamports
               /\ now <= WindowMs =>
                     C11_SumOver(amounts, C16_AllowedCalls(a)) <= MaxLamports

\* Two calls of one agent are between their policy evaluations at the same
\* time: one was allowed the whole limit, the other was denied for it
C16_Witness ==
    \E c, e \in Calls :
       /\ c # e
       /\ calls[c].agentId = calls[e].agentId
       /\ calls[c].pc = "policy" /\ calls[e].pc = "policy"
       /\ calls[c].last = PolicyAllow("spending-limit")
       /\ AmountOf(calls[c].intent) = MaxLamports
       /\ calls[e].last.policyId = "spending-limit"
       /\ ~calls[e].last.allowed

----------------------------------------------------------------------------
(* Properties of key handling *)

\* C21 (key isolation): IKeyStore.retrieve is invoked only from Signer.sign
\* or Signer.getSecretKey, never by another component.
C21_OnlySignerRetrieves ==
    \A r \in history.retrieved :
        r.caller \in {"Signer.sign", "Signer.getSecretKey"}

\* C22 (no key caching): every Signer.sign call for a wallet that has no key
\* in the key store at the time of the call throws a SigningError, also when
\* an earlier sign for that wallet succeeded.
C22_NoKeyCaching ==
    [][(returned'.op = "sign" /\ keys' = keys) =>
          (returned'.walletId \notin keys =>
              returned'.threw = "SigningError")]_vars

\* A sign refused for a wallet that signed before and whose key was deleted
C22_Witness ==
    /\ returned.op = "sign" /\ returned.threw = "SigningError"
    /\ returned.walletId \in history.signed
    /\ returned.walletId \notin keys

----------------------------------------------------------------------------
(* Properties of the accounting *)

\* The call was allowed an amount by SpendingLimitPolicy
C23_Reserved(call) ==
    /\ call.intent.type \in {"transfer", "swap"}
    /\ \E i \in 1..Len(call.evaluated) :
          /\ call.evaluated[i].policyId = "spending-limit"
          /\ call.evaluated[i].decision.allowed

\* The call failed at build, sign, send or confirm
C23_FailedLate(call) ==
    /\ call.pc = "done" /\ call.result.status = "failure"
    /\ \/ call.thrown \in GatedOps
       \/ call.confirmed = "false"

\* C23 (no rollback): when SpendingLimitPolicy allowed the amount of a call
\* and the call then failed at build, sign, send or confirm, the agent's
\* totalSpent still includes the amount; the spend records change only when
\* a policy is evaluated, so the amount stays counted until a later
\* evaluation resets the window.
C23_NoRollback ==
    /\ [](\A c \in Calls :
             (C23_Reserved(calls[c]) /\ C23_FailedLate(calls[c])) =>
                 /\ records[calls[c].agentId] # NoRecord
                 /\ records[calls[c].agentId].totalSpent
                        >= AmountOf(calls[c].intent))
    /\ [][records' # records =>
             \E c \in Calls :
                /\ calls'[c].pc = "policy"
                /\ Len(calls'[c].evaluated) = Len(calls[c].evaluated) + 1]_vars

\* A transfer of the whole limit failed at send and the limit is used up
C23_Witness ==
    \E c \in Calls :
       /\ C23_Reserved(calls[c])
       /\ calls[c].thrown = "sendTransaction"
       /\ calls[c].result.status = "failure"
       /\ AmountOf(calls[c].intent) = MaxLamports
       /\ records[calls[c].agentId].totalSpent = MaxLamports

----------------------------------------------------------------------------
(* Properties of failure reporting *)

\* The stage that was executing when collaborator operation op threw
C24_StageOf(op) ==
    CASE op = "getBalance" -> "policy"
      [] op = "evaluateAll" -> "policy"
      [] op = "resolve" -> "build"
      [] op = "buildTransaction" -> "build"
      [] op = "sendTransaction" -> "send"
      [] op = "confirmTransaction" -> "confirm"
      [] OTHER -> "none"

\* C24 (stage attribution): the failedAt of a Failure caused by a throwing
\* balance lookup, policy evaluation, adapter resolution, buildTransaction,
\* sendTransaction or confirmTransaction is the stage that was executing:
\* policy, policy, build, build, send and confirm.
C24_FailureAttributed ==
    \A c \in Calls :
      LET call == calls[c] IN
      (call.pc = "done" /\ call.result.status = "failure"
          /\ C24_StageOf(call.thrown) # "none") =>
         call.result.failedAt = C24_StageOf(call.thrown)

\* C25 (balance lookup failure): when the balance lookup of a call throws,
\* the call ends with a Failure, evaluateAll is not called and no policy is
\* evaluated in it, no policy state changes, and nothing is built, signed or
\* sent.
C25_BalanceFailure ==
    /\ [](\A c \in Calls :
             calls[c].thrown = "getBalance" =>
                 /\ calls[c].pc = "done"
                 /\ calls[c].result.status = "failure"
                 /\ calls[c].ops = <<"getBalance">>
                 /\ calls[c].evaluated = <<>>
                 /\ calls[c].decision = NoDecision)
    /\ [][\A c \in Calls :
             (calls'[c].thrown = "getBalance"
                 \/ (calls[c].pc = "getBalance" /\ calls'[c].pc = "done")) =>
                 UNCHANGED <<records, timestamps, policies>>]_vars

\* The balance lookup failed with the three policies registered and the
\* agent's counters already in use
C25_Witness ==
    \E c \in Calls :
       /\ calls[c].thrown = "getBalance"
       /\ calls[c].pc = "done"
       /\ Len(policies) = 3
       /\ records[calls[c].agentId] # NoRecord
       /\ timestamps[calls[c].agentId] # <<>>

----------------------------------------------------------------------------
(* Properties of validation *)

\* What the schemas of Intent.ts ask of an intent, as a function of the intent
\* alone
C26_WellFormed(intent) ==
    \/ intent.type \in {"transfer", "mint_token"} /\ intent.amount >= 1
    \/ intent.type = "swap" /\ intent.amountIn >= 1
    \/ intent.type = "create_mint" /\ intent.decimals \in 0..MaxDecimals

\* C26 (validation is idempotent and pure): the outcome of the validation
\* stage is a function of the intent alone, so the same well-formed intent
\* passes every time it is validated whatever happened in between, and the
\* stage changes no policy state, no registry and no key store.
C26_ValidationPure ==
    [][\A c \in Calls :
         (calls[c].pc = "idle" /\ calls'[c].pc # "idle") =>
            /\ C26_WellFormed(calls'[c].intent) =>
                   (calls'[c].pc = "getBalance" /\ calls'[c].result = NoResult)
            /\ ~C26_WellFormed(calls'[c].intent) =>
                   (calls'[c].pc = "done"
                       /\ calls'[c].result = ValidationFailure)
            /\ UNCHANGED <<policies, records, timestamps, allowedPrograms,
                           adapters, keys, wallets, payer, tokenManager, runner>>]_vars

\* A well-formed intent has passed validation again, after an earlier
\* invocation with the same amount moved the clock-dependent policy state
C26_Witness ==
    \E c \in Calls :
       /\ calls[c].pc = "getBalance"
       /\ calls[c].intent.type = "transfer"
       /\ now > 0
       /\ records[calls[c].agentId] # NoRecord
       /\ records[calls[c].agentId].totalSpent = calls[c].intent.amount
       /\ Len(timestamps[calls[c].agentId]) = 1
       /\ keys # {}

----------------------------------------------------------------------------
(* Properties of the order of policies *)

\* Policy pid allowed the intent of the call in its evaluateAll
C27_AllowedBy(call, pid) ==
    \E i \in 1..Len(call.evaluated) :
        /\ call.evaluated[i].policyId = pid
        /\ call.evaluated[i].decision.allowed

\* Policy pid denied the intent of the call: the last evaluation of the call
C27_DeniedBy(call, pid) ==
    /\ call.evaluated # <<>>
    /\ call.evaluated[Len(call.evaluated)].policyId = pid
    /\ ~call.evaluated[Len(call.evaluated)].decision.allowed

\* C27 (asymmetry of optimistic accounting): once the spending limit allowed
\* the intent of a call, the spend record it committed stays as it is for the
\* rest of the call, a later denial by the rate limit included, so the amount
\* of a denied transfer or swap is in totalSpent; the evaluation in which the spending
\* limit denies, and the rest of that call, leave the rate limit's timestamps
\* as they were.
C27_EarlierPoliciesKeepState ==
    /\ [](\A c \in Calls :
            (C27_AllowedBy(calls[c], "spending-limit")
                /\ C27_DeniedBy(calls[c], "rate-limit")
                /\ extractAmount(calls[c].intent)[1]) =>
               /\ records[calls[c].agentId] # NoRecord
               /\ records[calls[c].agentId].totalSpent >=
                      extractAmount(calls[c].intent)[2])
    /\ [][\A c \in Calls :
            /\ (C27_AllowedBy(calls[c], "spending-limit")
                    /\ calls'[c].pc # "idle"
                    /\ calls'[c].evaluated # calls[c].evaluated) =>
                  records' = records
            /\ (C27_DeniedBy(calls'[c], "spending-limit")
                    /\ calls[c].pc # "idle") =>
                  timestamps' = timestamps]_vars

\* The rate limit denied a transfer the spending limit, registered before it,
\* had allowed
C27_Witness ==
    \E c \in Calls :
       /\ calls[c].pc = "done"
       /\ calls[c].intent.type = "transfer"
       /\ C27_AllowedBy(calls[c], "spending-limit")
       /\ C27_DeniedBy(calls[c], "rate-limit")
       /\ records[calls[c].agentId].totalSpent = calls[c].intent.amount

\* The spending limit denied a transfer while the rate limit, registered
\* behind it, holds timestamps of earlier intents
C27_WitnessDenied ==
    \E c \in Calls :
       /\ calls[c].pc = "done"
       /\ C27_DeniedBy(calls[c], "spending-limit")
       /\ Len(policies) >= 2
       /\ policies[1] = "spending-limit"
       /\ policies[2] = "rate-limit"
       /\ timestamps[calls[c].agentId] # <<>>

----------------------------------------------------------------------------
(* Properties of the spending window *)

\* What SpendingLimitPolicy allowed agent a in the span of length WindowMs
\* ending at instant t
C28_AllowedInSpan(a, t) ==
    C11_SumOver(history.spent[a], {u \in Times : t - WindowMs < u /\ u <= t})

\* C28 (sliding-window cap): for every agent and every time span of length
\* windowMs, the amounts SpendingLimitPolicy allowed within the span add up to
\* at most maxLamports, whether or not windowStart was reset inside the span.
C28_SlidingCap ==
    \A a \in Agents : \A t \in Times :
        C28_AllowedInSpan(a, t) <= MaxLamports

----------------------------------------------------------------------------
(* Properties of the built transaction *)

\* C29 (only approved programs are executed): for an intent of any kind that
\* ProgramWhitelistPolicy allowed, every program id in the programIds of the
\* transaction the Solana builder builds for it is in the allow-set.
C29_BuiltWithinAllowSet ==
    (/\ Evaluated("program-whitelist")
     /\ returned.decision.allowed
     /\ returned.intent.chain = "solana") =>
        \A i \in 1..Len(BuiltProgramIds(returned.intent)) :
            BuiltProgramIds(returned.intent)[i] \in allowedPrograms

----------------------------------------------------------------------------
(* Properties of the intent lifecycle *)

\* C30 (an intent is consumed once): over any sequence of execute calls
\* sendTransaction is invoked at most once for each intent id.
C30_SentAtMostOnce ==
    \A id \in IntentIds : history.sent[id] <= 1

----------------------------------------------------------------------------
(* Properties of the catch block *)

\* The errors a stage of execute can raise: an ExecutionError of every stage,
\* a PolicyViolation, a SigningError and a plain Error
C31_Errors ==
    {ExecutionError(stage, Msg(stage, "")) : stage \in PipelineStages}
        \cup {[cls |-> "PolicyViolation", code |-> "POLICY_VIOLATION",
              stage |-> "", message |-> Msg("Policy violation", pid)] :
                 pid \in PolicyIds}
        \cup {SigningError(w, Msg("sign", "")) : w \in Wallets}
        \cup {Error(Msg("lookup", ""))}

\* What the Failure must carry for error e
C31_Derived(e, result) ==
    /\ result.status = "failure"
    /\ e.cls = "ExecutionError" =>
          (result.failedAt = e.stage /\ result.errorCode = "EXECUTION_ERROR")
    /\ e.cls = "PolicyViolation" => result.failedAt = "policy"
    /\ e.cls \notin {"ExecutionError", "PolicyViolation"} =>
          (result.failedAt = "send" /\ result.errorCode = "PIPELINE_ERROR")

\* C31 (derivation in the catch block): the Failure returned for a caught
\* exception has failedAt equal to the stage of an ExecutionError with
\* errorCode EXECUTION_ERROR, failedAt policy for a PolicyViolation, and
\* failedAt send with errorCode PIPELINE_ERROR for any other error; this holds
\* of the catch block for every error, and of every call that ended in it.
C31_CatchDerivation ==
    /\ \A e \in C31_Errors : C31_Derived(e, Catch(e))
    /\ \A c \in Calls :
          (calls[c].pc = "done" /\ calls[c].thrown # "") =>
             /\ C31_Derived(calls[c].result.cause, calls[c].result)
             /\ calls[c].thrown = "buildTransaction" =>
                   calls[c].result.failedAt = "build"
             /\ calls[c].thrown = "sendTransaction" =>
                   calls[c].result.failedAt = "send"
             /\ calls[c].thrown = "confirmTransaction" =>
                   calls[c].result.failedAt = "confirm"
             /\ calls[c].thrown \in {"getBalance", "resolve", "sign"} =>
                   calls[c].result.errorCode = "PIPELINE_ERROR"

\* confirmTransaction threw its ExecutionError and the call ended in the catch
\* block
C31_Witness ==
    \E c \in Calls :
       /\ calls[c].pc = "done"
       /\ calls[c].thrown = "confirmTransaction"
       /\ calls[c].result.cause.cls = "ExecutionError"
       /\ calls[c].result.failedAt = "confirm"
       /\ calls[c].result.errorCode = "EXECUTION_ERROR"

----------------------------------------------------------------------------
(* Properties of the window rollover *)

\* The latest direct call evaluated a transfer or swap in SpendingLimitPolicy
\* at an instant more than windowMs after the start of the agent's window
C32_RolledOver ==
    /\ Evaluated("spending-limit")
    /\ extractAmount(returned.intent)[1]
    /\ returned.before # NoRecord
    /\ returned.at - returned.before.windowStart > WindowMs

\* C32 (rollover restores the budget): a transfer or swap evaluated at an
\* instant with now - windowStart > windowMs finds the record reset to
\* totalSpent 0 and windowStart now, so it is allowed and accounted alone when
\* its amount is at most maxLamports, whatever was spent in the window before,
\* and denied with nothing accounted when its amount is larger.
C32_RolloverRestoresBudget ==
    C32_RolledOver =>
        LET amount == extractAmount(returned.intent)[2]
            record == records[returned.agentId]
        IN /\ record.windowStart = returned.at
           /\ amount <= MaxLamports =>
                 (returned.decision.allowed /\ record.totalSpent = amount)
           /\ amount > MaxLamports =>
                 (~returned.decision.allowed /\ record.totalSpent = 0)

\* The whole limit was spent in the previous window, and the whole limit was
\* allowed again after the rollover
C32_Witness ==
    /\ C32_RolledOver
    /\ returned.before.totalSpent = MaxLamports
    /\ extractAmount(returned.intent)[2] = MaxLamports
    /\ returned.decision.allowed
    /\ records[returned.agentId].totalSpent = MaxLamports

----------------------------------------------------------------------------
(* Properties of the exempt intent kinds *)

\* C33 (exempt kinds): SpendingLimitPolicy allows every create_mint and
\* mint_token intent, whatever amount it carries, and the evaluation leaves
\* every agent's spend record as it was, created or not.
C33_ExemptKinds ==
    [][(/\ returned' # returned
        /\ returned'.op = "evaluate"
        /\ returned'.policyId = "spending-limit"
        /\ returned'.intent.type \in {"create_mint", "mint_token"}) =>
           /\ returned'.decision = PolicyAllow("spending-limit")
           /\ records' = records]_vars

\* A mint_token intent carrying more than the limit was allowed while the
\* agent's window was already full
C33_Witness ==
    /\ Evaluated("spending-limit")
    /\ returned.intent.type = "mint_token"
    /\ returned.intent.amount > MaxLamports
    /\ returned.decision.allowed
    /\ returned.before # NoRecord
    /\ returned.before.totalSpent = MaxLamports
    /\ records[returned.agentId] = returned.before

----------------------------------------------------------------------------
(* Properties of isolation *)

\* The spend records with every agent's record but a's forgotten
C34_OnlyRecordOf(a) == [b \in Agents |-> IF b = a THEN records[a] ELSE NoRecord]

\* The rate timestamps with every agent's timestamps but a's forgotten
C34_OnlyTimestampsOf(a) ==
    [b \in Agents |-> IF b = a THEN timestamps[a] ELSE <<>>]

\* The evaluation of pid for agent a with only what pid keeps for a: the other
\* agents' state forgotten, and the other policy's state forgotten altogether
C34_Alone(pid, a, intent) ==
    PolicyEvaluate(pid,
        IF pid = "spending-limit" THEN C34_OnlyRecordOf(a)
        ELSE [b \in Agents |-> NoRecord],
        IF pid = "rate-limit" THEN C34_OnlyTimestampsOf(a)
        ELSE [b \in Agents |-> <<>>],
        intent, a, now)

\* C34 (per-agent isolation): an evaluation for agent A leaves every other
\* agent's spend record and rate timestamps unchanged; its decision, and what
\* it leaves for A, are those it gives when nothing is known of the other
\* agents and of the other policies; SpendingLimitPolicy changes no
\* timestamps, RateLimitPolicy no spend record and ProgramWhitelistPolicy
\* neither.
C34_Isolation ==
    [][(returned' # returned /\ returned'.op = "evaluate") =>
          LET a == returned'.agentId
              pid == returned'.policyId
              alone == C34_Alone(pid, a, returned'.intent)
          IN /\ \A b \in Agents \ {a} :
                   /\ records'[b] = records[b]
                   /\ timestamps'[b] = timestamps[b]
             /\ returned'.decision = alone.decision
             /\ pid = "spending-limit" =>
                   (records'[a] = alone.records[a] /\ timestamps' = timestamps)
             /\ pid = "rate-limit" =>
                   (timestamps'[a] = alone.timestamps[a] /\ records' = records)
             /\ pid = "program-whitelist" =>
                   (records' = records /\ timestamps' = timestamps)]_vars

\* Agent a2 was allowed the whole limit while agent a1's window is full and
\* a1 is at its rate limit
C34_Witness ==
    /\ Evaluated("spending-limit")
    /\ returned.agentId = "a2"
    /\ returned.decision.allowed
    /\ returned.intent.amount = MaxLamports
    /\ returned.at = now
    /\ records["a1"] # NoRecord
    /\ records["a1"].totalSpent = MaxLamports
    /\ records["a1"].windowStart = now
    /\ Len(timestamps["a1"]) = MaxTxPerMinute
    /\ records["a2"].totalSpent = MaxLamports

----------------------------------------------------------------------------
(* Properties of termination *)

\* C35 (termination): when every collaborator call an invocation awaits
\* eventually resolves or rejects, every started invocation of execute
\* eventually returns; it returns one ExecutionResult, a Success or a
\* Failure, which is set only at the return and not replaced afterwards.
C35_Terminates ==
    /\ \A c \in Calls :
          (calls[c].pc \notin {"idle", "done"}) ~> (calls[c].pc = "done")
    /\ [](\A c \in Calls :
             /\ calls[c].pc = "done" =>
                   calls[c].result.status \in {"success", "failure"}
             /\ calls[c].pc # "done" => calls[c].result = NoResult)
    /\ [][\A c \in Calls :
             calls[c].pc = "done" =>
                 (calls'[c] = calls[c] \/ calls'[c] = IdleCall)]_vars

\* An invocation went through every await of the pipeline and returned
C35_Witness ==
    \E c \in Calls :
       /\ calls[c].pc = "done"
       /\ calls[c].result.status = "success"
       /\ calls[c].ops = <<"getBalance", "evaluateAll", "resolve",
                           "buildTransaction", "sign", "sendTransaction",
                           "confirmTransaction">>
       /\ Len(calls[c].evaluated) = 3

----------------------------------------------------------------------------
(* Properties of the payer *)

\* C36 (the payer of a swap is the wallet's own key): whenever a buildSwap
\* call reaches its swap() call, the process-wide payer is the key of the
\* wallet of that call's intent, whatever other buildSwap calls did meanwhile.
C36_OwnPayerAtSwap ==
    [][\A c \in Calls :
         (calls[c].pc = "payerSet" /\ calls'[c].pc = "swap") =>
            payer = calls[c].intent.fromWalletId]_vars

----------------------------------------------------------------------------
(* Properties of the TokenManagerAgent and the ScenarioRunner *)

\* C37 (token ecosystem lifecycle): after a run of at least three rounds in
\* which the token manager decided in every round and no submitted intent
\* failed, the token manager emitted a create_mint intent in round 1, a
\* mint_token intent in round 2 and a transfer intent in round 3, and is in
\* state DONE.
C37_Lifecycle ==
    (/\ runner.pc = "finished"
     /\ runner.rounds >= 3
     /\ runner.allSucceeded
     /\ Len(tokenManager.trace) >= 3) =>
        /\ tokenManager.trace[1] = "create_mint"
        /\ tokenManager.trace[2] = "mint_token"
        /\ tokenManager.trace[3] = "transfer"
        /\ tokenManager.state = "DONE"

\* The position of a state in INIT -> MINT_CREATED -> TOKENS_MINTED -> DONE
C38_Rank(state) ==
    CASE state = "INIT" -> 0
      [] state = "MINT_CREATED" -> 1
      [] state = "TOKENS_MINTED" -> 2
      [] state = "DONE" -> 3

\* How many decisions of the agent returned an intent of the type
C38_Emitted(type) ==
    Cardinality({i \in 1..Len(tokenManager.trace) :
                    tokenManager.trace[i] = type})

\* C38 (state machine of the TokenManagerAgent): under any sequence of
\* contexts the state never moves backward in INIT -> MINT_CREATED ->
\* TOKENS_MINTED -> DONE; at most one create_mint, one mint_token and one
\* transfer intent are emitted, in this order of states; a mint_token or
\* transfer intent is emitted only with a known token mint, which it carries;
\* and every decision asked in DONE returns null.
C38_StateMachine ==
    /\ [](\A type \in {"create_mint", "mint_token", "transfer"} :
             C38_Emitted(type) <= 1)
    /\ [][/\ C38_Rank(tokenManager'.state) >= C38_Rank(tokenManager.state)
          /\ Len(tokenManager'.trace) > Len(tokenManager.trace) =>
                LET intent == returned'.intent IN
                /\ intent.type = "create_mint" =>
                      tokenManager.state = "INIT"
                /\ intent.type = "mint_token" =>
                      /\ tokenManager'.tokenMint \in Mints
                      /\ intent.mint = tokenManager'.tokenMint
                      /\ tokenManager'.state = "TOKENS_MINTED"
                /\ intent.type = "transfer" =>
                      /\ tokenManager'.tokenMint \in Mints
                      /\ intent.tokenMint
                      /\ tokenManager.state = "TOKENS_MINTED"
                      /\ tokenManager'.state = "DONE"
                /\ tokenManager.state = "DONE" =>
                      (intent = NoIntent /\ tokenManager'.state = "DONE")]_vars

\* The agent went through its four states emitting its three intents, and
\* was asked again in DONE
C38_Witness ==
    /\ tokenManager.state = "DONE"
    /\ tokenManager.trace = <<"create_mint", "mint_token", "transfer", "none">>
    /\ returned.op = "decide"
    /\ returned.before = "DONE"
    /\ returned.meta.lastMintAddress \in Mints
    /\ returned.meta.lastMintAddress # tokenManager.tokenMint

\* C39 (the agents of a round act simultaneously): when two agents submitted
\* intents in one round, the second agent's decide or execute began while the
\* first agent's execute had not returned.
C39_Simultaneous == runner.together => runner.overlapped

\* The runner awaits at most one agent at a time: no context is built and no
\* decide is called while an execute is awaited
C39_OneAtATime ==
    /\ Cardinality(runner.executing) <= 1
    /\ runner.pc \in {"context", "decide"} => runner.executing = {}
    /\ ~runner.overlapped

----------------------------------------------------------------------------
(* Properties of the window boundary *)

\* C40 (half-open window): a transfer or swap evaluated at exactly
\* windowStart + windowMs is outside the old window: the record is reset, its
\* window starts at that instant and only the evaluated amount, if allowed,
\* is accounted in it.
C40_HalfOpenWindow ==
    (/\ Evaluated("spending-limit")
     /\ extractAmount(returned.intent)[1]
     /\ returned.before # NoRecord
     /\ returned.at = returned.before.windowStart + WindowMs) =>
        LET record == records[returned.agentId] IN
        /\ record.windowStart = returned.at
        /\ record.totalSpent =
              IF returned.decision.allowed
              THEN extractAmount(returned.intent)[2] ELSE 0

====
